---------------------------- MODULE Spec2Model ----------------------------
(***************************************************************************)
(* Model of the kernel-mode HID pointer filter in                          *)
(* src/HidFilterDriver/trace.h: the per-device FILTER_EXTENSION, the       *)
(* PnP callbacks, the three request handlers of the default sequential     *)
(* queue, and the three filtering algorithms with their binary32           *)
(* arithmetic.                                                             *)
(***************************************************************************)
EXTENDS Integers, Sequences, FiniteSets, TLC

(***************************************************************************)
(* Program constants.                                                      *)
(***************************************************************************)
HISTORY_SIZE == 10

SizeofBoolean == 1

SizeofLong == 4

SizeofParameters == 16

SizeofMouseReport == 4

CHAR_MIN == -128

CHAR_MAX == 127

DefaultTunable == 50

(***************************************************************************)
(* IEEE-754 binary32 (FLOAT) arithmetic, round-to-nearest-even.  A value   *)
(* is [m, e] standing for m * 2^e, normalised so that m = 0 /\ e = 0 or    *)
(* 2^23 <= |m| < 2^24.  Every intermediate stays below 2^31.  The values   *)
(* the driver computes are far from the subnormal and overflow ranges.     *)
(***************************************************************************)
Abs(n) == IF n < 0 THEN -n ELSE n

Sgn(n) == IF n < 0 THEN -1 ELSE IF n > 0 THEN 1 ELSE 0

Pow2(k) == 2 ^ k

FZero == [m |-> 0, e |-> 0]

RECURSIVE NormUp(_, _)
\* Exact scaling of m * 2^e with |m| < 2^24 to the normalised form.
NormUp(m, e) ==
    IF m = 0 THEN FZero
    ELSE IF Abs(m) < 32768 THEN NormUp(512 * m, e - 9)
    ELSE IF Abs(m) < 8388608 THEN NormUp(2 * m, e - 1)
    ELSE [m |-> m, e |-> e]

RECURSIVE ExtraBits(_)
\* Number of bits of n (0 <= n < 2^31) above the 24 of a significand.
ExtraBits(n) == IF n < 16777216 THEN 0 ELSE 1 + ExtraBits(n \div 2)

\* The significand q1 after rounding: 2^24 carries into the exponent.
RoundCarry(sign, q1, e) ==
    IF q1 = 16777216 THEN [m |-> sign * 8388608, e |-> e + 1]
    ELSE [m |-> sign * q1, e |-> e]

\* Quotient q, remainder r of the bits dropped, half their weight: up when
\* above half, or at half with more below (sticky) or q odd.
RoundTie(sign, q, r, half, e, sticky) ==
    RoundCarry(sign,
               IF r > half \/ (r = half /\ (sticky \/ q % 2 = 1))
               THEN q + 1 ELSE q,
               e)

RoundBits(sign, n, e, sticky, k) ==
    IF k = 0 THEN NormUp(sign * n, e)
    ELSE RoundTie(sign, n \div Pow2(k), n % Pow2(k), Pow2(k - 1), e + k,
                  sticky)

\* sign * (n + f) * 2^e rounded to nearest, ties to even, where 0 <= n < 2^31
\* and 0 < f < 1 iff sticky (sticky only with n >= 2^24).
RoundNE(sign, n, e, sticky) == RoundBits(sign, n, e, sticky, ExtraBits(n))

\* (FLOAT)n for a LONG n with |n| < 2^24: exact.
FromLong(n) == NormUp(n, 0)

FNeg(a) == [m |-> -a.m, e |-> a.e]

\* The aligned sum n (floored when sticky) in units of 2^e.
AddRound(n, e, sticky) ==
    IF n = 0 /\ ~sticky THEN FZero
    ELSE RoundNE(IF n >= 0 THEN 1 ELSE -1,
                 IF n >= 0 THEN n ELSE IF sticky THEN -n - 1 ELSE -n,
                 e, sticky)

\* hi keeps g guard bits; lo is shifted right by sh bits, floored.
AddShifted(hi, lo, g, sh) ==
    AddRound(hi.m * Pow2(g)
               + (IF sh >= 25 THEN (IF lo.m < 0 THEN -1 ELSE 0)
                  ELSE lo.m \div Pow2(sh)),
             hi.e - g,
             IF sh >= 25 THEN TRUE ELSE lo.m % Pow2(sh) # 0)

\* hi has the larger exponent, by d.
AddAligned(hi, lo, d) ==
    AddShifted(hi, lo, IF d < 6 THEN d ELSE 6, IF d < 6 THEN 0 ELSE d - 6)

FAdd(a, b) ==
    IF a.m = 0 THEN b
    ELSE IF b.m = 0 THEN a
    ELSE AddAligned(IF a.e >= b.e THEN a ELSE b,
                    IF a.e >= b.e THEN b ELSE a,
                    Abs(a.e - b.e))

FSub(a, b) == FAdd(a, FNeg(b))

\* The 48-bit product as h * 2^24 + low, low < 2^25.
MulRound(sign, h, low, e) ==
    RoundNE(sign,
            (h + low \div 16777216) * 64 + (low % 16777216) \div 262144,
            e, low % 262144 # 0)

MulSum(sign, high, mid, lowp, e) ==
    MulRound(sign, high + mid \div 4096, (mid % 4096) * 4096 + lowp, e)

\* 12-bit limbs of the two significands.
MulLimbs(sign, ah, al, bh, bl, e) ==
    MulSum(sign, ah * bh, ah * bl + al * bh, al * bl, e)

FMul(a, b) ==
    IF a.m = 0 \/ b.m = 0 THEN FZero
    ELSE MulLimbs(Sgn(a.m) * Sgn(b.m),
                  Abs(a.m) \div 4096, Abs(a.m) % 4096,
                  Abs(b.m) \div 4096, Abs(b.m) % 4096,
                  a.e + b.e + 18)

RECURSIVE DivBits(_, _, _, _)
\* Long division: `bits` more quotient bits of rem / B appended to q.
DivBits(rem, B, bits, q) ==
    IF bits = 0 THEN [q |-> q, rem |-> rem]
    ELSE IF 2 * rem >= B THEN DivBits(2 * rem - B, B, bits - 1, 2 * q + 1)
    ELSE DivBits(2 * rem, B, bits - 1, 2 * q)

DivRound(sign, d, e) == RoundNE(sign, d.q, e, d.rem # 0)

\* a / b for b # 0.
FDiv(a, b) ==
    IF a.m = 0 THEN FZero
    ELSE DivRound(Sgn(a.m) * Sgn(b.m),
                  DivBits(Abs(a.m) % Abs(b.m), Abs(b.m), 25,
                          Abs(a.m) \div Abs(b.m)),
                  a.e - b.e - 25)

FLess(a, b) == FSub(a, b).m < 0

\* The max and min macros: ((a) > (b)) ? (a) : (b), ((a) < (b)) ? (a) : (b).
FMax(a, b) == IF FLess(b, a) THEN a ELSE b

FMin(a, b) == IF FLess(a, b) THEN a ELSE b

\* The FLOAT literals of the filter code: 1.0f, 100.0f, 20.0f are exact;
\* 0.01f, 0.1f, 0.9f are the binary32 values nearest to the decimals
\* (FDiv(FromLong(1), FromLong(100)) and so on).
F_1_0 == [m |-> 8388608, e |-> -23]

F_100_0 == [m |-> 13107200, e |-> -17]

F_20_0 == [m |-> 10485760, e |-> -19]

F_0_01 == [m |-> 10737418, e |-> -30]

F_0_1 == [m |-> 13421773, e |-> -27]

F_0_9 == [m |-> 15099494, e |-> -24]

\* (LONG)f: truncation toward zero, for |f| < 2^24.
ToLong(f) ==
    IF f.e >= 0 THEN f.m * Pow2(f.e)
    ELSE IF -f.e >= 24 THEN 0
    ELSE Sgn(f.m) * (Abs(f.m) \div Pow2(-f.e))

(***************************************************************************)
(* Integer helpers of the filter code.                                     *)
(***************************************************************************)
MaxLong(a, b) == IF a > b THEN a ELSE b

MinLong(a, b) == IF a < b THEN a ELSE b

\* Variant: no clamp.
ClampCharNone(n) == n

\* max(-128, min(127, n)) on LONG.
ClampChar(n) == MaxLong(CHAR_MIN, MinLong(CHAR_MAX, n))

\* (CHAR)n: narrowing of a LONG to a signed byte.
ToChar(n) == ((n + 128) % 256) - 128

\* The byte b (0..255) of a report read through a CHAR field.
CharOfByte(b) == IF b >= 128 THEN b - 256 ELSE b

\* The byte stored for the CHAR c.
ByteOfChar(c) == IF c < 0 THEN c + 256 ELSE c

\* LONG / ULONG: the LONG operand is converted to ULONG (mod 2^32), the
\* division is unsigned, and the quotient is converted back to LONG.  With
\* w >= 3 the quotient is below 2^31.  2^32 = 4 * 2^30 is split to stay
\* within 32-bit intermediates.
DivLongByUlong(s, w) ==
    IF s >= 0 THEN s \div w
    ELSE 4 * (1073741824 \div w) + (4 * (1073741824 % w) + s) \div w

(***************************************************************************)
(* The filtering algorithms.  fe is a FILTER_EXTENSION record; X and Y are *)
(* the CHAR fields of the report.  Each returns the updated record and     *)
(* the new X and Y.                                                        *)
(***************************************************************************)
\* Variant: the last output enters with its full weight.
BlendUndamped(x, last, alpha) ==
    ToLong(FAdd(FMul(FromLong(x), alpha), FromLong(last)))

\* (LONG)(x * alpha + last * (1.0f - alpha))
Blend(x, last, alpha) ==
    ToLong(FAdd(FMul(FromLong(x), alpha),
                FMul(FromLong(last), FSub(F_1_0, alpha))))

\* "Update last output", "Update report".
StoreOutput(fe, newX, newY) ==
    [fe |-> [fe EXCEPT !.LastXOutput = newX, !.LastYOutput = newY],
     X  |-> ToChar(newX),
     Y  |-> ToChar(newY)]

\* The blend of both axes, clamped to the CHAR range.
ApplyAlpha(fe, X, Y, alpha) ==
    StoreOutput(fe, ClampChar(Blend(X, fe.LastXOutput, alpha)),
                    ClampChar(Blend(Y, fe.LastYOutput, alpha)))

ExponentialAlpha(sf) ==
    FMax(F_0_01, FMin(F_1_0, FDiv(FromLong(100 - sf), F_100_0)))

ApplyExponentialSmoothing(fe, X, Y) ==
    ApplyAlpha(fe, X, Y, ExponentialAlpha(fe.SmoothingFactor))

\* Variant: the quotient rounded to the nearest.
WindowSizeRounded(fs) == MinLong(3 + (fs * 7 + 50) \div 100, HISTORY_SIZE)

WindowSize(fs) == MinLong(3 + (fs * 7) \div 100, HISTORY_SIZE)

RECURSIVE SumHistory(_, _, _, _)
\* The loop of ApplyMovingAverage: slots (index + 10 - 1 - i) % 10, i < n.
SumHistory(hist, index, n, i) ==
    IF i >= n THEN 0
    ELSE hist[(index + HISTORY_SIZE - 1 - i) % HISTORY_SIZE]
         + SumHistory(hist, index, n, i + 1)

AverageWindow(fe, windowSize) ==
    StoreOutput(fe,
        ClampChar(DivLongByUlong(
            SumHistory(fe.XHistory, fe.HistoryIndex, windowSize, 0),
            windowSize)),
        ClampChar(DivLongByUlong(
            SumHistory(fe.YHistory, fe.HistoryIndex, windowSize, 0),
            windowSize)))

ApplyMovingAverage(fe, X, Y) ==
    AverageWindow(fe, WindowSize(fe.FilteringStrength))

\* alpha = baseAlpha + (1.0f - baseAlpha) * velocityFactor, limited to
\* 0.1f .. 0.9f.
AdaptiveMix(baseAlpha, velocityFactor) ==
    FMax(F_0_1,
         FMin(F_0_9,
              FAdd(baseAlpha,
                   FMul(FSub(F_1_0, baseAlpha), velocityFactor))))

AdaptiveAlpha(rs, X, Y) ==
    AdaptiveMix(FDiv(FromLong(rs), F_100_0),
                FMin(F_1_0, FDiv(FromLong(Abs(X) + Abs(Y)), F_20_0)))

ApplyAdaptiveFiltering(fe, X, Y) ==
    ApplyAlpha(fe, X, Y, AdaptiveAlpha(fe.ResponseSpeed, X, Y))

(***************************************************************************)
(* ProcessMouseInput: history append, algorithm selection, last position.  *)
(***************************************************************************)
ZeroHistory == [i \in 0 .. HISTORY_SIZE - 1 |-> 0]

\* Variant: the buffer is zero-filled whenever the index is back at 0.
AppendHistoryRefill(fe, X, Y) ==
    [fe EXCEPT
       !.HistoryInitialized = TRUE,
       !.XHistory = [(IF fe.HistoryIndex # 0 THEN @ ELSE ZeroHistory)
                       EXCEPT ![fe.HistoryIndex] = X],
       !.YHistory = [(IF fe.HistoryIndex # 0 THEN @ ELSE ZeroHistory)
                       EXCEPT ![fe.HistoryIndex] = Y],
       !.HistoryIndex = (fe.HistoryIndex + 1) % HISTORY_SIZE]

\* Variant: the index is advanced without the modulo.
AppendHistoryUnwrapped(fe, X, Y) ==
    [fe EXCEPT
       !.HistoryInitialized = TRUE,
       !.XHistory = [(IF fe.HistoryInitialized THEN @ ELSE ZeroHistory)
                       EXCEPT ![fe.HistoryIndex] = X],
       !.YHistory = [(IF fe.HistoryInitialized THEN @ ELSE ZeroHistory)
                       EXCEPT ![fe.HistoryIndex] = Y],
       !.HistoryIndex = fe.HistoryIndex + 1]

\* "Store raw input for history": zero-fill on first use, store, advance.
AppendHistory(fe, X, Y) ==
    [fe EXCEPT
       !.HistoryInitialized = TRUE,
       !.XHistory = [(IF fe.HistoryInitialized THEN @ ELSE ZeroHistory)
                       EXCEPT ![fe.HistoryIndex] = X],
       !.YHistory = [(IF fe.HistoryInitialized THEN @ ELSE ZeroHistory)
                       EXCEPT ![fe.HistoryIndex] = Y],
       !.HistoryIndex = (fe.HistoryIndex + 1) % HISTORY_SIZE]

\* Variant: the limits 75 and 25 select the stronger smoothing.
SelectAlgorithmInclusive(fe, X, Y) ==
    IF fe.SmoothingFactor >= 75 THEN ApplyExponentialSmoothing(fe, X, Y)
    ELSE IF fe.SmoothingFactor >= 25 THEN ApplyMovingAverage(fe, X, Y)
    ELSE ApplyAdaptiveFiltering(fe, X, Y)

SelectAlgorithm(fe, X, Y) ==
    IF fe.SmoothingFactor > 75 THEN ApplyExponentialSmoothing(fe, X, Y)
    ELSE IF fe.SmoothingFactor > 25 THEN ApplyMovingAverage(fe, X, Y)
    ELSE ApplyAdaptiveFiltering(fe, X, Y)

\* Variant: the positions are left as they were.
StorePositionKept(r) == [fe |-> r.fe, X |-> r.X, Y |-> r.Y]

\* "Store current position for next iteration".
StorePosition(r) ==
    [fe |-> [r.fe EXCEPT !.LastXPosition = r.X, !.LastYPosition = r.Y],
     X  |-> r.X,
     Y  |-> r.Y]

\* Variant: the report is filtered whether the filter is on or off.
ProcessMouseInputAlways(fe, X, Y) ==
    StorePosition(SelectAlgorithm(AppendHistory(fe, X, Y), X, Y))

ProcessMouseInput(fe, X, Y) ==
    IF fe.FilterActive = 0 THEN [fe |-> fe, X |-> X, Y |-> Y]
    ELSE StorePosition(SelectAlgorithm(AppendHistory(fe, X, Y), X, Y))

(***************************************************************************)
(* Bounds of the model and the inputs the environment draws from.          *)
(***************************************************************************)
\* Reports passed through the filter per device instance.
MaxReports == 2

\* Requests the pending queue may hold.
MaxPending == 2

\* The two bounds are explored one at a time: a request is left in the
\* pending queue only before the first report is filtered, and reports are
\* filtered only while the pending queue is empty.

Devices == {"mouse"}

SetCodes ==
    {"IOCTL_HIDFILTER_SET_ACTIVE", "IOCTL_HIDFILTER_SET_SMOOTHING",
     "IOCTL_HIDFILTER_SET_RESPONSE", "IOCTL_HIDFILTER_SET_FILTERING"}

HandledCodes == SetCodes \cup {"IOCTL_HIDFILTER_GET_PARAMETERS"}

\* Codes sent to the device-control handler; the last is not one of ours.
ControlCodes == HandledCodes \cup {"IOCTL_HID_GET_FEATURE"}

\* Codes sent to the internal-device-control handler.
InternalCodes ==
    {"IOCTL_HID_READ_REPORT", "IOCTL_HID_WRITE_REPORT",
     "IOCTL_HID_GET_DEVICE_DESCRIPTOR"}

\* Input buffers (bytes) of a control request: for a tunable, 3 bytes, and
\* the LONGs -1, 10, 101 (and 50 and 90 for the smoothing factor, which
\* selects the algorithm).
ControlInputs(code) ==
    IF code = "IOCTL_HIDFILTER_SET_ACTIVE" THEN {<<>>, <<0>>, <<1>>}
    ELSE IF code = "IOCTL_HIDFILTER_SET_SMOOTHING"
    THEN {<<10, 0, 0>>, <<255, 255, 255, 255>>, <<10, 0, 0, 0>>,
          <<50, 0, 0, 0>>, <<90, 0, 0, 0>>, <<101, 0, 0, 0>>}
    ELSE IF code \in SetCodes
    THEN {<<10, 0, 0>>, <<255, 255, 255, 255>>, <<10, 0, 0, 0>>,
          <<101, 0, 0, 0>>}
    ELSE {<<>>}

OutputLengths(code) ==
    IF code = "IOCTL_HIDFILTER_GET_PARAMETERS" THEN {0, 15, 16} ELSE {0}

\* Payloads (bytes) of an in-band request: empty, 3 bytes, a report
\* (buttons 5, X = -100, Y = 20, wheel 1) and that report followed by one
\* more byte.
InternalInputs(code) ==
    IF code = "IOCTL_HID_WRITE_REPORT"
    THEN {<<>>, <<1, 100, 236>>, <<5, 156, 20, 1>>, <<5, 156, 20, 1, 7>>}
    ELSE {<<1, 100, 236, 255>>}

\* What the lower device answers to a forwarded request.
TargetStatuses == {"STATUS_SUCCESS", "STATUS_NO_SUCH_DEVICE"}

\* What WdfRequestForwardToIoQueue answers.
QueueStatuses == {"STATUS_SUCCESS", "STATUS_INVALID_DEVICE_REQUEST"}

\* What WdfIoQueueRetrieveNextRequest answers on a queue that holds a
\* request: the queue is power-managed and may be paused.
RetrieveStatuses == {"STATUS_SUCCESS", "STATUS_WDF_PAUSED"}

\* What WdfRequestRetrieveInputMemory answers: an empty buffer is refused.
MemoryStatuses(payload) ==
    IF Len(payload) = 0 THEN {"STATUS_BUFFER_TOO_SMALL"}
    ELSE {"STATUS_SUCCESS", "STATUS_INSUFFICIENT_RESOURCES"}

\* Where HidFilterDriverDeviceAdd may fail.
AddFailures == {"none", "WdfDeviceCreate", "DefaultQueue", "PendingQueue"}

NT_SUCCESS(status) == status = "STATUS_SUCCESS"

(***************************************************************************)
(* State.                                                                  *)
(***************************************************************************)
VARIABLES
    pnp,       \* per device: absent, added, started, stopped, failed, dead
    ext,       \* per device: its FILTER_EXTENSION
    filtered,  \* per device: reports filtered since it was added
    setSeen,   \* per device: a Set- request was handled since it was added
    last       \* what the most recent callback did

vars == <<pnp, ext, filtered, setSeen, last>>

\* The context space as WdfDeviceCreate hands it out: zero-filled.
ZeroContext ==
    [Target |-> "NULL", PendingQueue |-> <<>>,
     FilterActive |-> 0, SmoothingFactor |-> 0, ResponseSpeed |-> 0,
     FilteringStrength |-> 0,
     LastXPosition |-> 0, LastYPosition |-> 0,
     LastXOutput |-> 0, LastYOutput |-> 0,
     XHistory |-> ZeroHistory, YHistory |-> ZeroHistory,
     HistoryIndex |-> 0, HistoryInitialized |-> FALSE]

\* The record of one callback: its arguments, what it read and wrote, the
\* requests it queued, sent to the lower device and completed.
Call(callback, d, request, code, input, outputLength) ==
    [callback |-> callback, dev |-> d, request |-> request, code |-> code,
     input |-> input, outputLength |-> outputLength,
     bytesRead |-> 0, output |-> <<>>, information |-> 0,
     memory |-> "", failedAt |-> "none", status |-> "STATUS_SUCCESS",
     queued |-> <<>>, sent |-> <<>>, completed |-> <<>>]

Init ==
    /\ pnp = [d \in Devices |-> "absent"]
    /\ ext = [d \in Devices |-> ZeroContext]
    /\ filtered = [d \in Devices |-> 0]
    /\ setSeen = [d \in Devices |-> FALSE]
    /\ last = Call("none", "", 0, "", <<>>, 0)

(***************************************************************************)
(* PnP callbacks.                                                          *)
(***************************************************************************)
\* Variant: the tunables are left as the framework zeroed them.
DefaultContextZeroTunables ==
    [ZeroContext EXCEPT !.FilterActive = 0,
                        !.HistoryInitialized = FALSE,
                        !.HistoryIndex = 0]

\* The context after the default assignments of HidFilterDriverDeviceAdd.
DefaultContext ==
    [ZeroContext EXCEPT !.FilterActive = 0,
                        !.SmoothingFactor = DefaultTunable,
                        !.ResponseSpeed = DefaultTunable,
                        !.FilteringStrength = DefaultTunable,
                        !.HistoryInitialized = FALSE,
                        !.HistoryIndex = 0]

HidFilterDriverDeviceAdd(d, failAt) ==
    /\ pnp[d] = "absent"
    /\ LET ok == failAt = "none"
       IN  /\ pnp' = [pnp EXCEPT ![d] = IF ok THEN "added" ELSE "absent"]
           /\ ext' = [ext EXCEPT ![d] = IF ok THEN DefaultContext
                                        ELSE ZeroContext]
           /\ last' = [Call("HidFilterDriverDeviceAdd", d, 0, "", <<>>, 0)
                         EXCEPT !.status = IF ok THEN "STATUS_SUCCESS"
                                           ELSE "STATUS_INSUFFICIENT_RESOURCES",
                                !.failedAt = failAt]
    /\ filtered' = [filtered EXCEPT ![d] = 0]
    /\ setSeen' = [setSeen EXCEPT ![d] = FALSE]

\* Variant: the start goes on when the lower device could not be opened.
PrepareHardwareIgnoringFailure(d, openStatus) ==
    /\ pnp[d] \in {"added", "stopped"}
    /\ pnp' = [pnp EXCEPT ![d] = "started"]
    /\ ext' = [ext EXCEPT ![d].Target = "open"]
    /\ last' = [Call("HidFilterDriverPrepareHardware", d, 0, "", <<>>, 0)
                  EXCEPT !.status = openStatus]
    /\ UNCHANGED <<filtered, setSeen>>

HidFilterDriverPrepareHardware(d, openStatus) ==
    /\ pnp[d] \in {"added", "stopped"}
    /\ pnp' = [pnp EXCEPT ![d] = IF NT_SUCCESS(openStatus) THEN "started"
                                 ELSE "failed"]
    /\ ext' = [ext EXCEPT ![d].Target = IF NT_SUCCESS(openStatus) THEN "open"
                                        ELSE @]
    /\ last' = [Call("HidFilterDriverPrepareHardware", d, 0, "", <<>>, 0)
                  EXCEPT !.status = openStatus]
    /\ UNCHANGED <<filtered, setSeen>>

HidFilterDriverReleaseHardware(d) ==
    /\ pnp[d] \in {"started", "failed"}
    /\ pnp' = [pnp EXCEPT ![d] = IF @ = "started" THEN "stopped" ELSE "dead"]
    /\ ext' = [ext EXCEPT ![d].Target = "NULL"]
    /\ last' = Call("HidFilterDriverReleaseHardware", d, 0, "", <<>>, 0)
    /\ UNCHANGED <<filtered, setSeen>>

\* The framework deletes the device object, and its context with it, after
\* a stop that is a removal or after a failed start.
DeviceRemoved(d) ==
    /\ pnp[d] \in {"stopped", "dead"}
    /\ pnp' = [pnp EXCEPT ![d] = "absent"]
    /\ ext' = [ext EXCEPT ![d] = ZeroContext]
    /\ last' = Call("DeviceRemoved", d, 0, "", <<>>, 0)
    /\ filtered' = [filtered EXCEPT ![d] = 0]
    /\ setSeen' = [setSeen EXCEPT ![d] = FALSE]

(***************************************************************************)
(* Framework calls on request buffers and on the manual queue.             *)
(***************************************************************************)
\* WdfRequestRetrieveInputBuffer / WdfRequestRetrieveOutputBuffer on a
\* buffered request: refused when the buffer is empty or shorter than the
\* minimum asked for.
RetrieveBuffer(length, minimumRequiredSize) ==
    IF length = 0 \/ length < minimumRequiredSize
    THEN "STATUS_BUFFER_TOO_SMALL"
    ELSE "STATUS_SUCCESS"

\* *((PBOOLEAN)inputBuffer)
ReadBoolean(buf) == buf[1]

\* *((PLONG)inputBuffer): little-endian, two's complement.
ReadLong(buf) ==
    buf[1] + 256 * buf[2] + 65536 * buf[3] + 16777216 * CharOfByte(buf[4])

\* A request handle not in use: the handles in the pending queue are.
FreshRequest(queue) ==
    CHOOSE n \in 1 .. Len(queue) + 1 :
        /\ \A i \in 1 .. Len(queue) : queue[i].id # n
        /\ \A k \in 1 .. n - 1 : \E i \in 1 .. Len(queue) : queue[i].id = k

\* WdfIoQueueRetrieveNextRequest on a manual queue: its oldest request,
\* or nothing, the queue left as it is, when the framework refuses.
RetrieveNextRequest(queue, retrieveStatus) ==
    IF queue = <<>>
    THEN [status |-> "STATUS_NO_MORE_ENTRIES", queue |-> queue]
    ELSE IF NT_SUCCESS(retrieveStatus)
    THEN [status |-> retrieveStatus, request |-> Head(queue),
          queue |-> Tail(queue)]
    ELSE [status |-> retrieveStatus, queue |-> queue]

(***************************************************************************)
(* HidFilterDriverIoDeviceControl.  Each case returns the updated context, *)
(* the status, the input bytes read and the HIDFILTER_PARAMETERS written   *)
(* to the output buffer (its four fields in order, or nothing).            *)
(***************************************************************************)
Handled(fe, status, bytesRead, output, information) ==
    [fe |-> fe, status |-> status, bytesRead |-> bytesRead,
     output |-> output, information |-> information]

\* Variant: no lower limit.
ValidRangeNoLowerLimit(value) == value <= 100

\* Variant: the upper limit off by one.
ValidRangeUpTo101(value) == value >= 0 /\ value <= 101

ValidRange(value) == value >= 0 /\ value <= 100

\* Variant: switching the filter starts the history afresh.
SetActiveResetting(fe, inBuf) ==
    IF Len(inBuf) < SizeofBoolean
    THEN Handled(fe, "STATUS_BUFFER_TOO_SMALL", 0, <<>>, 0)
    ELSE Handled([fe EXCEPT !.FilterActive = ReadBoolean(inBuf),
                            !.HistoryInitialized = FALSE,
                            !.HistoryIndex = 0,
                            !.LastXOutput = 0,
                            !.LastYOutput = 0],
                 "STATUS_SUCCESS", SizeofBoolean, <<>>, 0)

\* Variant: the byte is applied with no check of the buffer length.
SetActiveUnchecked(fe, inBuf) ==
    Handled([fe EXCEPT !.FilterActive = IF inBuf = <<>> THEN 1 ELSE inBuf[1]],
            "STATUS_SUCCESS", SizeofBoolean, <<>>, 0)

SetActive(fe, inBuf) ==
    IF Len(inBuf) < SizeofBoolean
    THEN Handled(fe, "STATUS_BUFFER_TOO_SMALL", 0, <<>>, 0)
    ELSE LET status == RetrieveBuffer(Len(inBuf), SizeofBoolean)
         IN  IF NT_SUCCESS(status)
             THEN Handled([fe EXCEPT !.FilterActive = ReadBoolean(inBuf)],
                          status, SizeofBoolean, <<>>, 0)
             ELSE Handled(fe, status, 0, <<>>, 0)

\* Variant: a tunable written takes the filtering strength with it.
SetTunableCoupled(fe, field, inBuf) ==
    IF Len(inBuf) < SizeofLong
    THEN Handled(fe, "STATUS_BUFFER_TOO_SMALL", 0, <<>>, 0)
    ELSE IF ValidRange(ReadLong(inBuf))
    THEN Handled([fe EXCEPT ![field] = ReadLong(inBuf),
                            !.FilteringStrength = ReadLong(inBuf)],
                 "STATUS_SUCCESS", SizeofLong, <<>>, 0)
    ELSE Handled(fe, "STATUS_INVALID_PARAMETER", SizeofLong, <<>>, 0)

\* Variant: a value the field already holds is refused.
SetTunableOnce(fe, field, inBuf) ==
    IF Len(inBuf) < SizeofLong
    THEN Handled(fe, "STATUS_BUFFER_TOO_SMALL", 0, <<>>, 0)
    ELSE IF ValidRange(ReadLong(inBuf)) /\ fe[field] # ReadLong(inBuf)
    THEN Handled([fe EXCEPT ![field] = ReadLong(inBuf)],
                 "STATUS_SUCCESS", SizeofLong, <<>>, 0)
    ELSE Handled(fe, "STATUS_INVALID_PARAMETER", SizeofLong, <<>>, 0)

\* The three tunable cases are the same code on three fields.
SetTunable(fe, field, inBuf) ==
    IF Len(inBuf) < SizeofLong
    THEN Handled(fe, "STATUS_BUFFER_TOO_SMALL", 0, <<>>, 0)
    ELSE LET status == RetrieveBuffer(Len(inBuf), SizeofLong)
         IN  IF NT_SUCCESS(status)
             THEN LET value == ReadLong(inBuf)
                  IN  IF ValidRange(value)
                      THEN Handled([fe EXCEPT ![field] = value],
                                   status, SizeofLong, <<>>, 0)
                      ELSE Handled(fe, "STATUS_INVALID_PARAMETER",
                                   SizeofLong, <<>>, 0)
             ELSE Handled(fe, status, 0, <<>>, 0)

SetSmoothing(fe, inBuf) == SetTunable(fe, "SmoothingFactor", inBuf)

SetResponse(fe, inBuf) == SetTunable(fe, "ResponseSpeed", inBuf)

SetFiltering(fe, inBuf) == SetTunable(fe, "FilteringStrength", inBuf)

\* Variant: the parameters are written whatever the length of the buffer.
GetParametersUnchecked(fe, outputBufferLength) ==
    Handled(fe,
            IF outputBufferLength < SizeofParameters
            THEN "STATUS_BUFFER_TOO_SMALL" ELSE "STATUS_SUCCESS",
            0,
            <<fe.FilterActive, fe.SmoothingFactor,
              fe.ResponseSpeed, fe.FilteringStrength>>,
            SizeofParameters)

\* Variant: the values returned are those the device was attached with.
GetParametersStale(fe, outputBufferLength) ==
    IF outputBufferLength < SizeofParameters
    THEN Handled(fe, "STATUS_BUFFER_TOO_SMALL", 0, <<>>, 0)
    ELSE Handled(fe, "STATUS_SUCCESS", 0,
                 <<0, DefaultTunable, DefaultTunable, DefaultTunable>>,
                 SizeofParameters)

GetParameters(fe, outputBufferLength) ==
    IF outputBufferLength < SizeofParameters
    THEN Handled(fe, "STATUS_BUFFER_TOO_SMALL", 0, <<>>, 0)
    ELSE LET status == RetrieveBuffer(outputBufferLength, SizeofParameters)
         IN  IF NT_SUCCESS(status)
             THEN Handled(fe, status, 0,
                          <<fe.FilterActive, fe.SmoothingFactor,
                            fe.ResponseSpeed, fe.FilteringStrength>>,
                          SizeofParameters)
             ELSE Handled(fe, status, 0, <<>>, 0)

\* Variant: the request that triggered the branch is the one forwarded.
ForwardNextSame(fe, request, next, targetStatus) ==
    [fe        |-> [fe EXCEPT !.PendingQueue = next.queue],
     status    |-> IF NT_SUCCESS(next.status) THEN targetStatus
                   ELSE next.status,
     queued    |-> <<request.id>>,
     sent      |-> IF NT_SUCCESS(next.status)
                   THEN <<[request |-> request.id, buffer |-> request.buffer,
                           status  |-> targetStatus]>>
                   ELSE <<>>,
     completed |-> IF NT_SUCCESS(next.status) /\ ~NT_SUCCESS(targetStatus)
                   THEN <<[request |-> request.id, status |-> targetStatus]>>
                   ELSE <<>>]

\* The default case: the request goes to the pending queue, the next
\* request of that queue is retrieved and forwarded to the target.  next
\* is what WdfIoQueueRetrieveNextRequest returned.
ForwardNext(fe, request, next, targetStatus) ==
    IF NT_SUCCESS(next.status)
    THEN [fe        |-> [fe EXCEPT !.PendingQueue = next.queue],
          status    |-> targetStatus,
          queued    |-> <<request.id>>,
          sent      |-> <<[request |-> next.request.id,
                           buffer  |-> next.request.buffer,
                           status  |-> targetStatus]>>,
          completed |-> IF NT_SUCCESS(targetStatus) THEN <<>>
                        ELSE <<[request |-> next.request.id,
                                status  |-> targetStatus]>>]
    ELSE [fe        |-> [fe EXCEPT !.PendingQueue = next.queue],
          status    |-> next.status,
          queued    |-> <<request.id>>,
          sent      |-> <<>>,
          completed |-> <<>>]

ForwardUnknown(fe, request, queueStatus, retrieveStatus, targetStatus) ==
    IF NT_SUCCESS(queueStatus)
    THEN ForwardNext(fe, request,
                     RetrieveNextRequest(Append(fe.PendingQueue, request),
                                         retrieveStatus),
                     targetStatus)
    ELSE [fe        |-> fe,
          status    |-> queueStatus,
          queued    |-> <<>>,
          sent      |-> <<>>,
          completed |-> <<[request |-> request.id, status |-> queueStatus]>>]

\* The switch on IoControlCode, for the five codes of the filter.
Dispatch(fe, code, inBuf, outLen) ==
    CASE code = "IOCTL_HIDFILTER_SET_ACTIVE" -> SetActive(fe, inBuf)
      [] code = "IOCTL_HIDFILTER_SET_SMOOTHING" -> SetSmoothing(fe, inBuf)
      [] code = "IOCTL_HIDFILTER_SET_RESPONSE" -> SetResponse(fe, inBuf)
      [] code = "IOCTL_HIDFILTER_SET_FILTERING" -> SetFiltering(fe, inBuf)
      [] OTHER -> GetParameters(fe, outLen)

\* Variant: one context for all the devices.
CompleteRequestShared(d, call, r) ==
    /\ ext' = [e \in DOMAIN ext |-> r.fe]
    /\ last' = [call EXCEPT
                  !.status = r.status,
                  !.bytesRead = r.bytesRead,
                  !.output = r.output,
                  !.information = r.information,
                  !.completed = <<[request |-> call.request,
                                   status  |-> r.status]>>]

\* "Complete the request with the determined status".
CompleteRequest(d, call, r) ==
    /\ ext' = [ext EXCEPT ![d] = r.fe]
    /\ last' = [call EXCEPT
                  !.status = r.status,
                  !.bytesRead = r.bytesRead,
                  !.output = r.output,
                  !.information = r.information,
                  !.completed = <<[request |-> call.request,
                                   status  |-> r.status]>>]

\* "Don't complete the request here since it's being forwarded": return.
ReturnForwarded(d, call, r) ==
    /\ ext' = [ext EXCEPT ![d] = r.fe]
    /\ last' = [call EXCEPT
                  !.status = r.status,
                  !.queued = r.queued,
                  !.sent = r.sent,
                  !.completed = r.completed]

HidFilterDriverIoDeviceControl(d, code, inBuf, outLen, queueStatus, retrieveStatus, targetStatus) ==
    /\ pnp[d] = "started"
    /\ code \notin HandledCodes => Len(ext[d].PendingQueue) < MaxPending
    /\ ~NT_SUCCESS(retrieveStatus) => filtered[d] = 0
    /\ LET fe   == ext[d]
           id   == FreshRequest(fe.PendingQueue)
           call == Call("HidFilterDriverIoDeviceControl", d, id, code,
                        inBuf, outLen)
       IN  IF code \in HandledCodes
           THEN CompleteRequest(d, call, Dispatch(fe, code, inBuf, outLen))
           ELSE ReturnForwarded(d, call,
                    ForwardUnknown(fe, [id |-> id, buffer |-> inBuf],
                                   queueStatus, retrieveStatus,
                                   targetStatus))
    /\ setSeen' = [setSeen EXCEPT ![d] = @ \/ code \in SetCodes]
    /\ UNCHANGED <<pnp, filtered>>

(***************************************************************************)
(* HidFilterDriverIoInternalDeviceControl and HidFilterQueueDefault.       *)
(***************************************************************************)
\* Variant: only the MOUSE_REPORT at the head of the buffer is sent on.
ForwardTruncated(call, buffer, targetStatus) ==
    [call EXCEPT
       !.status = targetStatus,
       !.sent = <<[request |-> call.request,
                   buffer  |-> SubSeq(buffer, 1,
                                      MinLong(Len(buffer), SizeofMouseReport)),
                   status  |-> targetStatus]>>,
       !.completed = IF NT_SUCCESS(targetStatus) THEN <<>>
                     ELSE <<[request |-> call.request,
                             status  |-> targetStatus]>>]

\* Variant: the request is completed whatever the forward answered.
ForwardCompleting(call, buffer, targetStatus) ==
    [call EXCEPT
       !.status = targetStatus,
       !.sent = <<[request |-> call.request, buffer |-> buffer,
                   status  |-> targetStatus]>>,
       !.completed = <<[request |-> call.request, status |-> targetStatus]>>]

\* WdfRequestForwardToIoTarget and the completion on its failure.
ForwardToIoTarget(call, buffer, targetStatus) ==
    [call EXCEPT
       !.status = targetStatus,
       !.sent = <<[request |-> call.request, buffer |-> buffer,
                   status  |-> targetStatus]>>,
       !.completed = IF NT_SUCCESS(targetStatus) THEN <<>>
                     ELSE <<[request |-> call.request,
                             status  |-> targetStatus]>>]

\* Variant: the branch is taken whatever the code.
ShouldFilterAnyCode(fe, code) == fe.FilterActive # 0

\* The condition of the write-report branch.
ShouldFilter(fe, code) ==
    code = "IOCTL_HID_WRITE_REPORT" /\ fe.FilterActive # 0

\* Variant: the length is compared with the three bytes up to Y.
IsMouseReportUpToY(payload, memoryStatus) ==
    NT_SUCCESS(memoryStatus) /\ Len(payload) >= SizeofMouseReport - 1

\* The buffer could be retrieved and holds a MOUSE_REPORT.
IsMouseReport(payload, memoryStatus) ==
    NT_SUCCESS(memoryStatus) /\ Len(payload) >= SizeofMouseReport

\* Variant: only the four bytes of the report are kept in the buffer.
WriteBackReportOnly(r, payload) ==
    [fe |-> r.fe,
     payload |-> <<payload[1], ByteOfChar(r.X), ByteOfChar(r.Y), 0>>,
     filtered |-> 1]

\* The report as ProcessMouseInput left it, in the request's buffer.
WriteBack(r, payload) ==
    [fe |-> r.fe,
     payload |-> [payload EXCEPT ![2] = ByteOfChar(r.X),
                                 ![3] = ByteOfChar(r.Y)],
     filtered |-> 1]

\* The write-report branch: the report is filtered in place.
FilterReport(fe, payload, memoryStatus) ==
    IF IsMouseReport(payload, memoryStatus)
    THEN WriteBack(ProcessMouseInput(fe, CharOfByte(payload[2]),
                                     CharOfByte(payload[3])),
                   payload)
    ELSE [fe |-> fe, payload |-> payload, filtered |-> 0]

\* Variant: a request whose report was not filtered is failed instead of
\* being forwarded.
ForwardFilteredOnly(d, call, r, targetStatus) ==
    /\ ext' = [ext EXCEPT ![d] = r.fe]
    /\ filtered' = [filtered EXCEPT ![d] = @ + r.filtered]
    /\ last' = IF r.filtered = 1
               THEN ForwardToIoTarget(call, r.payload, targetStatus)
               ELSE [call EXCEPT
                       !.status = "STATUS_INVALID_PARAMETER",
                       !.completed = <<[request |-> call.request,
                                        status  |-> "STATUS_INVALID_PARAMETER"]>>]

\* The forward that follows the write-report branch.
ForwardFiltered(d, call, r, targetStatus) ==
    /\ ext' = [ext EXCEPT ![d] = r.fe]
    /\ filtered' = [filtered EXCEPT ![d] = @ + r.filtered]
    /\ last' = ForwardToIoTarget(call, r.payload, targetStatus)

HidFilterDriverIoInternalDeviceControl(d, code, payload, memoryStatus, targetStatus) ==
    /\ pnp[d] = "started"
    /\ LET fe   == ext[d]
           id   == FreshRequest(fe.PendingQueue)
           call == Call("HidFilterDriverIoInternalDeviceControl", d, id,
                        code, payload, 0)
       IN  IF code = "IOCTL_HID_READ_REPORT"
           THEN /\ last' = ForwardToIoTarget(call, payload, targetStatus)
                /\ UNCHANGED <<ext, filtered>>
           ELSE IF ShouldFilter(fe, code)
           THEN ForwardFiltered(d, [call EXCEPT !.memory = memoryStatus],
                                FilterReport(fe, payload, memoryStatus),
                                targetStatus)
           ELSE /\ last' = ForwardToIoTarget(call, payload, targetStatus)
                /\ UNCHANGED <<ext, filtered>>
    /\ UNCHANGED <<pnp, setSeen>>

\* Variant: the handler is held back while the request forwarded before
\* it is with the lower device.
HidFilterQueueDefaultWaiting(d, targetStatus) ==
    /\ pnp[d] = "started"
    /\ ~(Len(last.sent) = 1 /\ NT_SUCCESS(last.sent[1].status))
    /\ last' = ForwardToIoTarget(
                   Call("HidFilterQueueDefault", d,
                        FreshRequest(ext[d].PendingQueue), "", <<>>, 0),
                   <<>>, targetStatus)
    /\ UNCHANGED <<pnp, ext, filtered, setSeen>>

HidFilterQueueDefault(d, targetStatus) ==
    /\ pnp[d] = "started"
    /\ last' = ForwardToIoTarget(
                   Call("HidFilterQueueDefault", d,
                        FreshRequest(ext[d].PendingQueue), "", <<>>, 0),
                   <<>>, targetStatus)
    /\ UNCHANGED <<pnp, ext, filtered, setSeen>>

(***************************************************************************)
(* The specification: the framework calls one callback at a time per       *)
(* device (WdfIoQueueDispatchSequential); the requests, their buffers and  *)
(* the answers of the framework and of the lower device are the            *)
(* environment's.                                                          *)
(***************************************************************************)
DeviceAddStep(d) ==
    \E failAt \in AddFailures : HidFilterDriverDeviceAdd(d, failAt)

PrepareHardwareStep(d) ==
    \E openStatus \in TargetStatuses :
        HidFilterDriverPrepareHardware(d, openStatus)

IoDeviceControlStep(d) ==
    \E code \in ControlCodes :
        \E inBuf \in ControlInputs(code), outLen \in OutputLengths(code) :
            \E queueStatus \in IF code \in HandledCodes
                               THEN {"STATUS_SUCCESS"} ELSE QueueStatuses,
               retrieveStatus \in IF code \in HandledCodes
                                  THEN {"STATUS_SUCCESS"}
                                  ELSE RetrieveStatuses,
               targetStatus \in IF code \in HandledCodes
                                THEN {"STATUS_SUCCESS"} ELSE TargetStatuses :
                HidFilterDriverIoDeviceControl(d, code, inBuf, outLen,
                                               queueStatus, retrieveStatus,
                                               targetStatus)

IoInternalDeviceControlStep(d) ==
    \E code \in InternalCodes :
        \E payload \in InternalInputs(code) :
            \E memoryStatus \in
                   IF ShouldFilter(ext[d], code)
                   THEN MemoryStatuses(payload) ELSE {"STATUS_SUCCESS"},
               targetStatus \in TargetStatuses :
                /\ (ShouldFilter(ext[d], code)
                    /\ IsMouseReport(payload, memoryStatus))
                       => /\ filtered[d] < MaxReports
                          /\ ext[d].PendingQueue = <<>>
                /\ HidFilterDriverIoInternalDeviceControl(
                       d, code, payload, memoryStatus, targetStatus)

QueueDefaultStep(d) ==
    \E targetStatus \in TargetStatuses : HidFilterQueueDefault(d, targetStatus)

DeviceAdd == \E d \in Devices : DeviceAddStep(d)

PrepareHardware == \E d \in Devices : PrepareHardwareStep(d)

ReleaseHardware == \E d \in Devices : HidFilterDriverReleaseHardware(d)

Removal == \E d \in Devices : DeviceRemoved(d)

IoDeviceControl == \E d \in Devices : IoDeviceControlStep(d)

IoInternalDeviceControl == \E d \in Devices : IoInternalDeviceControlStep(d)

QueueDefault == \E d \in Devices : QueueDefaultStep(d)

Next ==
    \/ DeviceAdd
    \/ PrepareHardware
    \/ ReleaseHardware
    \/ Removal
    \/ IoDeviceControl
    \/ IoInternalDeviceControl
    \/ QueueDefault

Spec == Init /\ [][Next]_vars

(***************************************************************************)
(* Properties.  A step of a handler for device d is a step after which     *)
(* last names that handler and d; ext[d] is then the context the handler   *)
(* found and ext'[d] the context it left.                                  *)
(***************************************************************************)
Handlers ==
    {"HidFilterDriverIoDeviceControl",
     "HidFilterDriverIoInternalDeviceControl", "HidFilterQueueDefault"}

TunableCodes ==
    {"IOCTL_HIDFILTER_SET_SMOOTHING", "IOCTL_HIDFILTER_SET_RESPONSE",
     "IOCTL_HIDFILTER_SET_FILTERING"}

TunableField(code) ==
    CASE code = "IOCTL_HIDFILTER_SET_SMOOTHING" -> "SmoothingFactor"
      [] code = "IOCTL_HIDFILTER_SET_RESPONSE" -> "ResponseSpeed"
      [] OTHER -> "FilteringStrength"

\* The 32-bit signed value a caller put in a 4-byte buffer.
WrittenValue(buf) ==
    buf[1] + 256 * buf[2] + 65536 * buf[3]
    + 16777216 * (IF buf[4] >= 128 THEN buf[4] - 256 ELSE buf[4])

CompletedWith(call, status) ==
    call.completed = <<[request |-> call.request, status |-> status]>>

Pending(fe, request) ==
    \E i \in 1 .. Len(fe.PendingQueue) : fe.PendingQueue[i].id = request

ControlStep(d, code) ==
    /\ last'.callback = "HidFilterDriverIoDeviceControl"
    /\ last'.dev = d
    /\ last'.code = code

InternalStep(d) ==
    /\ last'.callback = "HidFilterDriverIoInternalDeviceControl"
    /\ last'.dev = d

C1_Write(d, code) ==
    (ControlStep(d, code) /\ Len(last'.input) >= 4) =>
        IF WrittenValue(last'.input) \in 0 .. 100
        THEN /\ ext'[d][TunableField(code)] = WrittenValue(last'.input)
             /\ CompletedWith(last', "STATUS_SUCCESS")
        ELSE /\ ext'[d][TunableField(code)] = ext[d][TunableField(code)]
             /\ CompletedWith(last', "STATUS_INVALID_PARAMETER")

C1_Keep(d, code) ==
    (/\ last'.dev = d
     /\ last'.callback \in Handlers \cup {"HidFilterDriverPrepareHardware",
                                         "HidFilterDriverReleaseHardware"}
     /\ ~ControlStep(d, code))
        => ext'[d][TunableField(code)] = ext[d][TunableField(code)]

C1_Read(d) ==
    (ControlStep(d, "IOCTL_HIDFILTER_GET_PARAMETERS")
     /\ last'.outputLength >= 16) =>
        /\ last'.output = <<ext[d].FilterActive, ext[d].SmoothingFactor,
                            ext[d].ResponseSpeed, ext[d].FilteringStrength>>
        /\ CompletedWith(last', "STATUS_SUCCESS")

\* C1: a Set-Smoothing, Set-Response or Set-Filtering request that writes a
\* value outside [0,100] leaves its field unchanged and is completed with
\* STATUS_INVALID_PARAMETER; one that writes a value inside [0,100] stores
\* exactly that value and succeeds; no other request of the device instance
\* changes the field, and Get-Parameters returns the fields as they are, so
\* the next Get-Parameters returns the value stored.
C1_TunableWrites ==
    [][\A d \in Devices :
           /\ \A code \in TunableCodes : C1_Write(d, code) /\ C1_Keep(d, code)
           /\ C1_Read(d)]_vars

\* A value stored by Set-Filtering and by Set-Smoothing, and a later
\* Set-Filtering of 101 rejected with the stored value kept.
C1_Witness ==
    /\ last.callback = "HidFilterDriverIoDeviceControl"
    /\ last.code = "IOCTL_HIDFILTER_SET_FILTERING"
    /\ last.input = <<101, 0, 0, 0>>
    /\ last.status = "STATUS_INVALID_PARAMETER"
    /\ ext[last.dev].FilteringStrength = 10
    /\ ext[last.dev].SmoothingFactor = 90

\* C2: a write-report request handled while FilterActive is FALSE is sent
\* to the lower device once, with the buffer it arrived with, whatever its
\* length and content.
C2_InactivePassThrough ==
    [][\A d \in Devices :
           (/\ InternalStep(d)
            /\ last'.code = "IOCTL_HID_WRITE_REPORT"
            /\ ext[d].FilterActive = 0)
               => /\ Len(last'.sent) = 1
                  /\ last'.sent[1].request = last'.request
                  /\ last'.sent[1].buffer = last'.input]_vars

\* A report longer than a MOUSE_REPORT passed through unchanged by a filter
\* that had filtered reports before it was switched off.
C2_Witness ==
    /\ last.callback = "HidFilterDriverIoInternalDeviceControl"
    /\ last.code = "IOCTL_HID_WRITE_REPORT"
    /\ Len(last.input) = 5
    /\ ext[last.dev].FilterActive = 0
    /\ filtered[last.dev] > 0
    /\ Len(last.sent) = 1
    /\ last.sent[1].buffer = last.input

\* C3: whenever a handler returns with a failure status, it has completed
\* the request it was called with, once and with that status, and no other
\* request.
C3_ErrorCompletesOnce ==
    (last.callback \in Handlers /\ ~NT_SUCCESS(last.status))
        => CompletedWith(last, last.status)

\* A request with an unknown control code left in the pending queue, not
\* forwarded and not completed, after the retrieval from the queue failed.
C3_Stranded ==
    /\ last.callback = "HidFilterDriverIoDeviceControl"
    /\ ~NT_SUCCESS(last.status)
    /\ last.completed = <<>>
    /\ last.sent = <<>>
    /\ Pending(ext[last.dev], last.request)

RequiredLength(code) ==
    CASE code = "IOCTL_HIDFILTER_SET_ACTIVE" -> 1
      [] code \in TunableCodes -> 4
      [] OTHER -> 0

\* C4: a Set-Active, Set-Smoothing, Set-Response, Set-Filtering or
\* Get-Parameters request is completed by the handler that received it, once
\* and with the handler's status; it is not sent to the lower device and not
\* put in the pending queue; no more input is read than the buffer holds, a
\* short input buffer gives STATUS_BUFFER_TOO_SMALL, and the parameters are
\* written only to an output buffer of at least 16 bytes.
C4_ControlCompletes ==
    (last.callback = "HidFilterDriverIoDeviceControl"
     /\ last.code \in HandledCodes)
        => /\ CompletedWith(last, last.status)
           /\ last.sent = <<>>
           /\ last.queued = <<>>
           /\ ~Pending(ext[last.dev], last.request)
           /\ last.bytesRead <= Len(last.input)
           /\ Len(last.input) < RequiredLength(last.code)
                  => /\ last.status = "STATUS_BUFFER_TOO_SMALL"
                     /\ last.bytesRead = 0
           /\ last.output # <<>> => last.outputLength >= 16
           /\ (last.code = "IOCTL_HIDFILTER_GET_PARAMETERS"
               /\ last.outputLength < 16)
                  => last.status = "STATUS_BUFFER_TOO_SMALL"

\* A Set-Smoothing request with a 3-byte buffer, completed with
\* STATUS_BUFFER_TOO_SMALL.
C4_Witness ==
    /\ last.callback = "HidFilterDriverIoDeviceControl"
    /\ last.code = "IOCTL_HIDFILTER_SET_SMOOTHING"
    /\ Len(last.input) = 3
    /\ CompletedWith(last, "STATUS_BUFFER_TOO_SMALL")
    /\ last.bytesRead = 0

\* The pending queue once the request of the step has been added to it.
C5_Queue(d) ==
    Append(ext[d].PendingQueue,
           [id |-> last'.request, buffer |-> last'.input])

C5_Drained(d) ==
    /\ last'.queued = <<last'.request>>
    /\ Len(last'.sent) = 1
    /\ last'.sent[1].request = Head(C5_Queue(d)).id
    /\ last'.sent[1].buffer = Head(C5_Queue(d)).buffer
    /\ ext'[d].PendingQueue = Tail(C5_Queue(d))
    /\ NT_SUCCESS(last'.sent[1].status) => last'.completed = <<>>

C5_QueueRefused(d) ==
    /\ last'.queued = <<>>
    /\ last'.sent = <<>>
    /\ ~NT_SUCCESS(last'.status)
    /\ CompletedWith(last', last'.status)
    /\ ext'[d] = ext[d]

C5_RetrievalRefused(d) ==
    /\ last'.queued = <<last'.request>>
    /\ last'.sent = <<>>
    /\ last'.completed = <<>>
    /\ ~NT_SUCCESS(last'.status)
    /\ ext'[d].PendingQueue = C5_Queue(d)

C6_ForwardedUnconditionally ==
    [][\A d \in Devices :
           (\/ InternalStep(d) /\ last'.code # "IOCTL_HID_WRITE_REPORT"
            \/ last'.callback = "HidFilterQueueDefault" /\ last'.dev = d)
               => /\ ext'[d] = ext[d]
                  /\ Len(last'.sent) = 1
                  /\ last'.sent[1].request = last'.request
                  /\ last'.sent[1].buffer = last'.input]_vars

\* A request that is neither read-report nor write-report, carrying four
\* bytes, sent on unchanged while the filter is active.
C6_Witness ==
    /\ last.callback = "HidFilterDriverIoInternalDeviceControl"
    /\ last.code = "IOCTL_HID_GET_DEVICE_DESCRIPTOR"
    /\ ext[last.dev].FilterActive # 0
    /\ Len(last.input) = 4
    /\ Len(last.sent) = 1
    /\ last.sent[1].buffer = last.input

\* The byte that holds a CHAR.
C7_Byte(c) == (c + 256) % 256

\* The buffer of the step holds the input with the filtered X and Y.
C7_Filtered(d) ==
    /\ Len(last'.sent[1].buffer) = Len(last'.input)
    /\ \A i \in 1 .. Len(last'.input) :
           i \notin {2, 3} => last'.sent[1].buffer[i] = last'.input[i]
    /\ last'.sent[1].buffer[2] = C7_Byte(ext'[d].LastXPosition)
    /\ last'.sent[1].buffer[3] = C7_Byte(ext'[d].LastYPosition)

\* C7: a write-report request handled while FilterActive is set is sent to
\* the lower device exactly once, whether or not its buffer could be
\* retrieved and was long enough for a MOUSE_REPORT; what is sent is the
\* buffer as it arrived when the report was not filtered, and the buffer
\* with the filtered X and Y when it was.
C7_ActiveForwardedOnce ==
    [][\A d \in Devices :
           (/\ InternalStep(d)
            /\ last'.code = "IOCTL_HID_WRITE_REPORT"
            /\ ext[d].FilterActive # 0)
               => /\ Len(last'.sent) = 1
                  /\ last'.sent[1].request = last'.request
                  /\ IF NT_SUCCESS(last'.memory) /\ Len(last'.input) >= 4
                     THEN C7_Filtered(d)
                     ELSE last'.sent[1].buffer = last'.input]_vars

\* A report the active filter changed before it was sent on.
C7_Witness ==
    /\ last.callback = "HidFilterDriverIoInternalDeviceControl"
    /\ last.code = "IOCTL_HID_WRITE_REPORT"
    /\ ext[last.dev].FilterActive # 0
    /\ Len(last.sent) = 1
    /\ last.sent[1].buffer # last.input
    /\ filtered[last.dev] = 2

\* C8: a write-report request with fewer than 4 bytes handled while
\* FilterActive is set leaves the device context as it was and is sent to
\* the lower device with the buffer it arrived with; the handler completes
\* it only when that send fails, with the status of the send.
C8_ShortReportSkipped ==
    [][\A d \in Devices :
           (/\ InternalStep(d)
            /\ last'.code = "IOCTL_HID_WRITE_REPORT"
            /\ ext[d].FilterActive # 0
            /\ Len(last'.input) < 4)
               => /\ ext'[d] = ext[d]
                  /\ filtered'[d] = filtered[d]
                  /\ Len(last'.sent) = 1
                  /\ last'.sent[1].request = last'.request
                  /\ last'.sent[1].buffer = last'.input
                  /\ IF NT_SUCCESS(last'.sent[1].status)
                     THEN last'.completed = <<>>
                     ELSE CompletedWith(last', last'.sent[1].status)]_vars

\* A 3-byte write-report whose buffer was retrieved, sent on unchanged by
\* the active filter after it had filtered a report, and not completed.
C8_Witness ==
    /\ last.callback = "HidFilterDriverIoInternalDeviceControl"
    /\ last.code = "IOCTL_HID_WRITE_REPORT"
    /\ ext[last.dev].FilterActive # 0
    /\ Len(last.input) = 3
    /\ NT_SUCCESS(last.memory)
    /\ filtered[last.dev] = 1
    /\ Len(last.sent) = 1
    /\ last.sent[1].buffer = last.input
    /\ last.completed = <<>>

\* C9: a handler sends a request to the lower device at most once, the two
\* in-band handlers exactly once; when the send fails the handler completes
\* the request it sent, once and with the status of the send, and when the
\* send succeeds the handler completes nothing.
C9_ForwardOutcome ==
    last.callback \in Handlers
        => /\ Len(last.sent) <= 1
           /\ last.callback # "HidFilterDriverIoDeviceControl"
                  => Len(last.sent) = 1
           /\ \A i \in 1 .. Len(last.sent) :
                  IF NT_SUCCESS(last.sent[i].status)
                  THEN last.completed = <<>>
                  ELSE last.completed =
                           <<[request |-> last.sent[i].request,
                              status  |-> last.sent[i].status]>>

\* A filtered write-report the lower device refused, completed with the
\* status of the refusal.
C9_Witness ==
    /\ last.callback = "HidFilterDriverIoInternalDeviceControl"
    /\ last.code = "IOCTL_HID_WRITE_REPORT"
    /\ Len(last.sent) = 1
    /\ last.sent[1].buffer # last.input
    /\ last.sent[1].status = "STATUS_NO_SUCH_DEVICE"
    /\ CompletedWith(last, "STATUS_NO_SUCH_DEVICE")

\* C10: as long as no Set- request was handled since the device was added,
\* whatever other requests were, the context holds FilterActive FALSE, the
\* three tunables 50, HistoryInitialized FALSE, HistoryIndex 0 and last
\* outputs 0, and a Get-Parameters with a buffer of 16 bytes returns
\* FALSE, 50, 50, 50.
C10_DefaultsBeforeSet ==
    \A d \in Devices :
        (pnp[d] # "absent" /\ ~setSeen[d])
            => /\ ext[d].FilterActive = 0
               /\ ext[d].SmoothingFactor = 50
               /\ ext[d].ResponseSpeed = 50
               /\ ext[d].FilteringStrength = 50
               /\ ext[d].HistoryInitialized = FALSE
               /\ ext[d].HistoryIndex = 0
               /\ ext[d].LastXOutput = 0
               /\ ext[d].LastYOutput = 0
               /\ (/\ last.callback = "HidFilterDriverIoDeviceControl"
                   /\ last.dev = d
                   /\ last.code = "IOCTL_HIDFILTER_GET_PARAMETERS"
                   /\ last.outputLength >= 16)
                      => /\ last.output = <<0, 50, 50, 50>>
                         /\ last.information = 16
                         /\ CompletedWith(last, "STATUS_SUCCESS")

\* A Get-Parameters answered with the defaults before any Set- request.
C10_Witness ==
    /\ last.callback = "HidFilterDriverIoDeviceControl"
    /\ last.code = "IOCTL_HIDFILTER_GET_PARAMETERS"
    /\ ~setSeen[last.dev]
    /\ last.output = <<0, 50, 50, 50>>
    /\ CompletedWith(last, "STATUS_SUCCESS")

\* The request of the step came with a buffer too small for its code.
C11_TooSmall ==
    \/ last'.code = "IOCTL_HIDFILTER_SET_ACTIVE" /\ Len(last'.input) < 1
    \/ last'.code \in TunableCodes /\ Len(last'.input) < 4
    \/ last'.code = "IOCTL_HIDFILTER_GET_PARAMETERS"
       /\ last'.outputLength < 16

\* C11: a Set-Active with no input byte, a tunable Set- with fewer than 4
\* input bytes and a Get-Parameters with an output buffer of fewer than 16
\* bytes are completed with STATUS_BUFFER_TOO_SMALL, leave the whole device
\* context as it was and write nothing to the output buffer.
C11_SizeErrorNoEffect ==
    [][\A d \in Devices :
           (/\ last'.callback = "HidFilterDriverIoDeviceControl"
            /\ last'.dev = d
            /\ C11_TooSmall)
               => /\ CompletedWith(last', "STATUS_BUFFER_TOO_SMALL")
                  /\ ext'[d] = ext[d]
                  /\ filtered'[d] = filtered[d]
                  /\ last'.output = <<>>
                  /\ last'.information = 0
                  /\ last'.bytesRead = 0]_vars

\* A Get-Parameters with a 15-byte buffer refused in a context that holds
\* written values, which it keeps.
C11_Witness ==
    /\ last.callback = "HidFilterDriverIoDeviceControl"
    /\ last.code = "IOCTL_HIDFILTER_GET_PARAMETERS"
    /\ last.outputLength = 15
    /\ CompletedWith(last, "STATUS_BUFFER_TOO_SMALL")
    /\ last.output = <<>>
    /\ ext[last.dev].SmoothingFactor = 90
    /\ ext[last.dev].FilterActive = 1

\* C12: in every state that a successful Set-Smoothing left, the same
\* Set-Smoothing handled again gives the same device context and the same
\* completion status; neither sends or queues a request.
C12_SetSmoothingIdempotent ==
    (/\ last.callback = "HidFilterDriverIoDeviceControl"
     /\ last.code = "IOCTL_HIDFILTER_SET_SMOOTHING"
     /\ NT_SUCCESS(last.status))
        => /\ Dispatch(ext[last.dev], last.code, last.input, 0).fe
                  = ext[last.dev]
           /\ Dispatch(ext[last.dev], last.code, last.input, 0).status
                  = last.status
           /\ last.sent = <<>>
           /\ last.queued = <<>>
           /\ CompletedWith(last, "STATUS_SUCCESS")

\* A successful Set-Smoothing of 50 after other values were written and
\* reports were filtered.
C12_Witness ==
    /\ last.callback = "HidFilterDriverIoDeviceControl"
    /\ last.code = "IOCTL_HIDFILTER_SET_SMOOTHING"
    /\ last.input = <<50, 0, 0, 0>>
    /\ NT_SUCCESS(last.status)
    /\ ext[last.dev].SmoothingFactor = 50
    /\ ext[last.dev].FilteringStrength = 10
    /\ filtered[last.dev] > 0

(***************************************************************************)
(* The filter on chosen reports.  SpecFilter starts from a started device  *)
(* whose filter was just switched on, with a response speed written        *)
(* before; Set-Smoothing requests and write-reports follow in any order.   *)
(***************************************************************************)
\* Reports filtered in a run of SpecFilter.
MaxFilterReports == 2

\* Smoothing factors written: the limits of the selection and one value
\* inside each range.
FilterSmoothing == {10, 25, 26, 50, 75, 76, 90}

FilterResponse == {50, 100}

\* Reports (buttons 1, X = 100, Y = 20) and (buttons 1, X = -20, Y = -8).
FilterPayloads == {<<1, 100, 20, 0>>, <<1, 236, 248, 0>>}

\* The record of the Set-Active request that switched the filter on.
SwitchedOn(d) ==
    [Call("HidFilterDriverIoDeviceControl", d, 1,
          "IOCTL_HIDFILTER_SET_ACTIVE", <<1>>, 0)
       EXCEPT !.bytesRead = SizeofBoolean,
              !.completed = <<[request |-> 1, status |-> "STATUS_SUCCESS"]>>]

\* The context of a started device with the filter on and tunables written.
Configured(sf, rs, fs) ==
    [DefaultContext EXCEPT !.Target = "open",
                           !.FilterActive = 1,
                           !.SmoothingFactor = sf,
                           !.ResponseSpeed = rs,
                           !.FilteringStrength = fs]

InitFilter ==
    /\ pnp = [d \in Devices |-> "started"]
    /\ \E rs \in FilterResponse :
           ext = [d \in Devices |-> Configured(DefaultTunable, rs,
                                               DefaultTunable)]
    /\ filtered = [d \in Devices |-> 0]
    /\ setSeen = [d \in Devices |-> TRUE]
    /\ last = SwitchedOn(CHOOSE d \in Devices : TRUE)

FilterWrite ==
    \E d \in Devices :
        \E payload \in FilterPayloads :
            /\ filtered[d] < MaxFilterReports
            /\ HidFilterDriverIoInternalDeviceControl(
                   d, "IOCTL_HID_WRITE_REPORT", payload,
                   "STATUS_SUCCESS", "STATUS_SUCCESS")

FilterSetSmoothing ==
    \E d \in Devices :
        \E sf \in FilterSmoothing :
            /\ pnp[d] = "started"
            /\ HidFilterDriverIoDeviceControl(
                   d, "IOCTL_HIDFILTER_SET_SMOOTHING", <<sf, 0, 0, 0>>, 0,
                   "STATUS_SUCCESS", "STATUS_SUCCESS", "STATUS_SUCCESS")

NextFilter ==
    \/ FilterWrite
    \/ FilterSetSmoothing

SpecFilter == InitFilter /\ [][NextFilter]_vars

\* The step filters the report of a write-report request for device d.
FilterStep(d) ==
    /\ InternalStep(d)
    /\ last'.code = "IOCTL_HID_WRITE_REPORT"
    /\ ext[d].FilterActive # 0
    /\ NT_SUCCESS(last'.memory)
    /\ Len(last'.input) >= 4

\* The signed value of a byte of a report.
SignedByte(b) == IF b >= 128 THEN b - 256 ELSE b

RawX == SignedByte(last'.input[2])

RawY == SignedByte(last'.input[3])

\* The step left the outputs r of an algorithm in the context and in the
\* report sent on.
C13_Applied(d, r) ==
    /\ ext'[d].LastXOutput = r.fe.LastXOutput
    /\ ext'[d].LastYOutput = r.fe.LastYOutput
    /\ SignedByte(last'.sent[1].buffer[2]) = r.X
    /\ SignedByte(last'.sent[1].buffer[3]) = r.Y

\* C13: the algorithm applied to a report is the one its smoothing factor
\* selects when the report is handled: Exponential above 75, Windowed
\* average above 25 and up to 75, Adaptive up to 25; a Set-Smoothing handled
\* just before the report decides.
C13_SelectionBySmoothing ==
    [][\A d \in Devices :
           FilterStep(d)
               => IF ext[d].SmoothingFactor \in 76 .. 100
                  THEN C13_Applied(d, ApplyExponentialSmoothing(
                           AppendHistory(ext[d], RawX, RawY), RawX, RawY))
                  ELSE IF ext[d].SmoothingFactor \in 26 .. 75
                  THEN C13_Applied(d, ApplyMovingAverage(
                           AppendHistory(ext[d], RawX, RawY), RawX, RawY))
                  ELSE C13_Applied(d, ApplyAdaptiveFiltering(
                           AppendHistory(ext[d], RawX, RawY), RawX, RawY))]_vars

\* A second report (100, 20) filtered with smoothing factor 75, written
\* after the first report: the windowed average of the two samples in a
\* window of 6, not the exponential blend.
C13_Witness ==
    /\ last.callback = "HidFilterDriverIoInternalDeviceControl"
    /\ last.input = <<1, 100, 20, 0>>
    /\ ext[last.dev].SmoothingFactor = 75
    /\ filtered[last.dev] = 2
    /\ ext[last.dev].XHistory[0] = -20
    /\ ext[last.dev].LastXOutput = 13
    /\ last.sent[1].buffer = <<1, 13, 2, 0>>

\* n / d rounded toward zero, d > 0.
TruncDiv(n, d) == IF n >= 0 THEN n \div d ELSE -((-n) \div d)

Clamp(n, lo, hi) == IF n < lo THEN lo ELSE IF n > hi THEN hi ELSE n

\* alpha * x + (1 - alpha) * lastOutput for alpha = percent / 100, rounded
\* toward zero and clamped to -128 .. 127.
ExactBlend(percent, x, lastOutput) ==
    Clamp(TruncDiv(percent * x + (100 - percent) * lastOutput, 100),
          -128, 127)

\* The step left the exact blend of an axis in the context and in the
\* report sent on.
C14_AxisX(d, percent) ==
    /\ ext'[d].LastXOutput = ExactBlend(percent, RawX, ext[d].LastXOutput)
    /\ SignedByte(last'.sent[1].buffer[2]) = ext'[d].LastXOutput

C14_AxisY(d, percent) ==
    /\ ext'[d].LastYOutput = ExactBlend(percent, RawY, ext[d].LastYOutput)
    /\ SignedByte(last'.sent[1].buffer[3]) = ext'[d].LastYOutput

\* C14: a report filtered with a smoothing factor in 76 .. 100 has, on each
\* axis, the output alpha * input + (1 - alpha) * lastOutput rounded toward
\* zero and clamped to -128 .. 127, for alpha = (100 - smoothingFactor) /
\* 100 limited to 0.01 .. 1.0; that output is sent on and becomes the
\* lastOutput of the axis.
C14_ExponentialOutput ==
    [][\A d \in Devices :
           (FilterStep(d) /\ ext[d].SmoothingFactor \in 76 .. 100)
               => /\ C14_AxisX(d, Clamp(100 - ext[d].SmoothingFactor, 1, 100))
                  /\ C14_AxisY(d, Clamp(100 - ext[d].SmoothingFactor, 1, 100))]_vars

\* The stated case: smoothing factor 90, last output 0 and X = 100 give 10.
C14_StatedCase ==
    /\ last.callback = "HidFilterDriverIoInternalDeviceControl"
    /\ last.input = <<1, 100, 20, 0>>
    /\ filtered[last.dev] = 1
    /\ ext[last.dev].SmoothingFactor = 90
    /\ ext[last.dev].LastXOutput = 10
    /\ last.sent[1].buffer = <<1, 10, 2, 0>>

\* Smoothing factor 90, last output 2 on Y and Y = -8: the output is 0,
\* where 0.1 * -8 + 0.9 * 2 is 1.
C14_Deviation ==
    /\ last.callback = "HidFilterDriverIoInternalDeviceControl"
    /\ last.input = <<1, 236, 248, 0>>
    /\ filtered[last.dev] = 2
    /\ ext[last.dev].SmoothingFactor = 90
    /\ ext[last.dev].YHistory[0] = 20
    /\ ext[last.dev].LastXOutput = 7
    /\ ext[last.dev].LastYOutput = 0

\* C16: with the response speed at 100 and a smoothing factor of at most 25
\* the adaptive filter uses alpha 0.9 for every input: each axis leaves
\* with 0.9 * input + 0.1 * lastOutput rounded toward zero and clamped to
\* -128 .. 127, and that output becomes the lastOutput of the axis.
C16_AdaptiveAtFullResponse ==
    [][\A d \in Devices :
           (/\ FilterStep(d)
            /\ ext[d].ResponseSpeed = 100
            /\ ext[d].SmoothingFactor <= 25)
               => /\ ext'[d].LastXOutput = ExactBlend(90, RawX, ext[d].LastXOutput)
                  /\ SignedByte(last'.sent[1].buffer[2]) = ext'[d].LastXOutput
                  /\ ext'[d].LastYOutput = ExactBlend(90, RawY, ext[d].LastYOutput)
                  /\ SignedByte(last'.sent[1].buffer[3]) = ext'[d].LastYOutput]_vars

\* Response speed 100, smoothing factor 10, last output 90 on X and X = -20:
\* the output is -8, where 0.9 * -20 + 0.1 * 90 is -9.
C16_Deviation ==
    /\ last.callback = "HidFilterDriverIoInternalDeviceControl"
    /\ last.input = <<1, 236, 248, 0>>
    /\ filtered[last.dev] = 2
    /\ ext[last.dev].ResponseSpeed = 100
    /\ ext[last.dev].SmoothingFactor = 10
    /\ ext[last.dev].XHistory[0] = 100
    /\ ext[last.dev].LastXOutput = -8
    /\ ext[last.dev].LastYOutput = -5

-----------------------------------------------------------------------------
\* A constant stream through the moving average: a started, active device
\* with the tunables at 50 receives one write-report with any X and then
\* the same report again and again.

MaxAverageReports == 6

AverageValues == CHAR_MIN .. CHAR_MAX

AverageY == 20

InitAverage ==
    /\ pnp = [d \in Devices |-> "started"]
    /\ ext = [d \in Devices |->
                  Configured(DefaultTunable, DefaultTunable, DefaultTunable)]
    /\ filtered = [d \in Devices |-> 0]
    /\ setSeen = [d \in Devices |-> FALSE]
    /\ last = SwitchedOn(CHOOSE d \in Devices : TRUE)

\* The raw sample stored by the most recent filtered report.
PreviousIndex(fe) == (fe.HistoryIndex + HISTORY_SIZE - 1) % HISTORY_SIZE

AveragePayload(x, y) == <<0, ByteOfChar(x), ByteOfChar(y), 0>>

AverageFirst ==
    \E d \in Devices, v \in AverageValues :
        /\ filtered[d] = 0
        /\ HidFilterDriverIoInternalDeviceControl(d, "IOCTL_HID_WRITE_REPORT", AveragePayload(v, AverageY), "STATUS_SUCCESS", "STATUS_SUCCESS")

AverageRepeat ==
    \E d \in Devices :
        /\ filtered[d] \in 1 .. MaxAverageReports - 1
        /\ HidFilterDriverIoInternalDeviceControl(d, "IOCTL_HID_WRITE_REPORT", AveragePayload(ext[d].XHistory[PreviousIndex(ext[d])], ext[d].YHistory[PreviousIndex(ext[d])]), "STATUS_SUCCESS", "STATUS_SUCCESS")

NextAverage ==
    \/ AverageFirst
    \/ AverageRepeat

SpecAverage == InitAverage /\ [][NextAverage]_vars

\* The slots of the `n` most recent raw samples.
RecentSlots(fe, n) ==
    {(fe.HistoryIndex + HISTORY_SIZE - 1 - i) % HISTORY_SIZE : i \in 0 .. n - 1}

\* The last `n` reports of device d were filtered and stored v in hist.
AllEqual(d, hist, n, v) ==
    /\ filtered[d] >= n
    /\ \A i \in RecentSlots(ext[d], n) : hist[i] = v

\* C15: with the smoothing factor and the filtering strength at 50 the
\* window is 6 samples, and a report filtered when the last 6 raw samples of
\* an axis all equal v leaves with v on that axis, for every v in -128 ..
\* 127.
C15_ConstantStreamAverage ==
    \A d \in Devices :
        (/\ last.callback = "HidFilterDriverIoInternalDeviceControl"
         /\ last.dev = d
         /\ ext[d].SmoothingFactor = 50
         /\ ext[d].FilteringStrength = 50
         /\ Len(last.sent) = 1)
            => /\ WindowSize(ext[d].FilteringStrength) = 6
               /\ \A v \in AverageValues :
                      /\ AllEqual(d, ext[d].XHistory, 6, v)
                             => /\ SignedByte(last.sent[1].buffer[2]) = v
                                /\ ext[d].LastXOutput = v
                      /\ AllEqual(d, ext[d].YHistory, 6, v)
                             => /\ SignedByte(last.sent[1].buffer[3]) = v
                                /\ ext[d].LastYOutput = v

\* Six reports with X = -10 and Y = 20: X leaves as 127, Y as 20.
C15_NegativeAverage ==
    /\ last.callback = "HidFilterDriverIoInternalDeviceControl"
    /\ filtered[last.dev] = 6
    /\ AllEqual(last.dev, ext[last.dev].XHistory, 6, -10)
    /\ AllEqual(last.dev, ext[last.dev].YHistory, 6, 20)
    /\ last.sent[1].buffer = <<0, 127, 20, 0>>
    /\ ext[last.dev].LastXOutput = 127

-----------------------------------------------------------------------------
\* The history ring: a started device receives a numbered stream of
\* write-reports, report number k of the filtered ones carrying X = k and
\* Y = -k, and may be switched off and on in between.

MaxRingReports == 11

RingSmoothing == {10, 50, 90}

RingResponse == {50, 100}

RingFiltering == {0, 50, 100}

InitRing ==
    /\ pnp = [d \in Devices |-> "started"]
    /\ \E sf \in RingSmoothing, rs \in RingResponse, fs \in RingFiltering :
           ext = [d \in Devices |-> Configured(sf, rs, fs)]
    /\ filtered = [d \in Devices |-> 0]
    /\ setSeen = [d \in Devices |-> TRUE]
    /\ last = SwitchedOn(CHOOSE d \in Devices : TRUE)

RingPayload(k) == <<0, ByteOfChar(k), ByteOfChar(0 - k), 0>>

RingWrite ==
    \E d \in Devices :
        /\ filtered[d] < MaxRingReports
        /\ HidFilterDriverIoInternalDeviceControl(d, "IOCTL_HID_WRITE_REPORT", RingPayload(filtered[d] + 1), "STATUS_SUCCESS", "STATUS_SUCCESS")

RingSetActive ==
    \E d \in Devices, b \in {0, 1} :
        /\ pnp[d] = "started"
        /\ HidFilterDriverIoDeviceControl(d, "IOCTL_HIDFILTER_SET_ACTIVE", <<b>>, 0, "STATUS_SUCCESS", "STATUS_SUCCESS", "STATUS_SUCCESS")

NextRing ==
    \/ RingWrite
    \/ RingSetActive

SpecRing == InitRing /\ [][NextRing]_vars

\* The number of the most recent of the first k filtered reports that went
\* to slot i, 0 if there is none.
NewestInSlot(k, i) ==
    IF k <= i THEN 0 ELSE k - ((k - 1 - i) % HISTORY_SIZE)

\* After k filtered reports every slot holds the newest sample that went
\* to it, and zero if none did.
C17_RingHolds ==
    \A d \in Devices :
        filtered[d] > 0 =>
            /\ ext[d].HistoryInitialized
            /\ ext[d].HistoryIndex = filtered[d] % HISTORY_SIZE
            /\ \A i \in 0 .. HISTORY_SIZE - 1 :
                   /\ ext[d].XHistory[i] = NewestInSlot(filtered[d], i)
                   /\ ext[d].YHistory[i] = 0 - NewestInSlot(filtered[d], i)

\* The context with the raw sample of filtered report k in slot (k - 1) mod
\* 10 of a buffer that is zero before the first report.
C17_Stored(fe, k, X, Y) ==
    [fe EXCEPT
       !.HistoryInitialized = TRUE,
       !.XHistory = [i \in 0 .. HISTORY_SIZE - 1 |->
                        IF i = (k - 1) % HISTORY_SIZE THEN X
                        ELSE IF k = 1 THEN 0 ELSE fe.XHistory[i]],
       !.YHistory = [i \in 0 .. HISTORY_SIZE - 1 |->
                        IF i = (k - 1) % HISTORY_SIZE THEN Y
                        ELSE IF k = 1 THEN 0 ELSE fe.YHistory[i]],
       !.HistoryIndex = k % HISTORY_SIZE]

\* Filtered report k leaves the context that the selected algorithm
\* produces from the buffer already holding the sample.
C17_StoredFirst ==
    \A d \in Devices :
        FilterStep(d) =>
            /\ filtered'[d] = filtered[d] + 1
            /\ ext'[d] = StorePosition(SelectAlgorithm(C17_Stored(ext[d], filtered'[d], RawX, RawY), RawX, RawY)).fe

\* C17: the k-th filtered report writes its raw X and Y into slot (k - 1)
\* mod 10 of the history before the algorithm runs, so the 11th overwrites
\* slot 0, and the ring holds the 10 most recent raw samples, with zeros in
\* the slots not yet written.
C17_HistoryRing == []C17_RingHolds /\ [][C17_StoredFirst]_vars

\* The slots of the history.
C37_Slots == 0 .. HISTORY_SIZE - 1

\* The index is a slot and counts the filtered reports modulo 10; the slot
\* the next report is written to and the slots the moving average reads
\* are slots of the history; the flag is set once a report was filtered.
C37_IndexInRing ==
    \A d \in Devices :
        /\ ext[d].HistoryIndex \in C37_Slots
        /\ ext[d].HistoryIndex = filtered[d] % HISTORY_SIZE
        /\ DOMAIN ext[d].XHistory = C37_Slots
        /\ DOMAIN ext[d].YHistory = C37_Slots
        /\ RecentSlots(ext[d], WindowSize(ext[d].FilteringStrength))
               \subseteq C37_Slots
        /\ ext[d].HistoryInitialized <=> filtered[d] > 0

\* A flag that is set stays set, and a report filtered with the flag set
\* changes no slot but the one at the index.
C37_FilledOnce ==
    \A d \in Devices :
        ext[d].HistoryInitialized
            => /\ ext'[d].HistoryInitialized
               /\ \A i \in C37_Slots \ {ext[d].HistoryIndex} :
                      /\ ext'[d].XHistory[i] = ext[d].XHistory[i]
                      /\ ext'[d].YHistory[i] = ext[d].YHistory[i]

\* C37: in every state the history index is in 0 .. 9 and equals the
\* number of reports filtered since attach modulo 10, every slot read or
\* written is in 0 .. 9, and the initialized flag, set by the first
\* filtered report, is never cleared, so the history is zero-filled once.
C37_IndexAndFlag == []C37_IndexInRing /\ [][C37_FilledOnce]_vars

\* The filter switched off after eleven filtered reports: the index has
\* wrapped to 1 and the flag is still set.
C37_Witness ==
    /\ last.callback = "HidFilterDriverIoDeviceControl"
    /\ last.code = "IOCTL_HIDFILTER_SET_ACTIVE"
    /\ ext[last.dev].FilterActive = 0
    /\ filtered[last.dev] = HISTORY_SIZE + 1
    /\ ext[last.dev].HistoryIndex = 1
    /\ ext[last.dev].HistoryInitialized

\* Eleven filtered reports: slot 0 holds the 11th sample, slots 1 to 9 the
\* 2nd to the 10th.
C17_Witness ==
    /\ last.callback = "HidFilterDriverIoInternalDeviceControl"
    /\ filtered[last.dev] = 11
    /\ ext[last.dev].HistoryIndex = 1
    /\ ext[last.dev].XHistory[0] = 11
    /\ ext[last.dev].YHistory[0] = -11
    /\ \A i \in 1 .. 9 : ext[last.dev].XHistory[i] = i + 1

-----------------------------------------------------------------------------
\* Switching off and on, stop and restart, failures of attach and start:
\* properties of Spec.

\* The state the filters work from.
FilterState(fe) ==
    <<fe.XHistory, fe.YHistory, fe.HistoryIndex, fe.HistoryInitialized,
      fe.LastXOutput, fe.LastYOutput>>

\* C18: switching the filter off and on again, with any requests in
\* between, keeps the history, the history index, the initialized flag and
\* the last outputs: no request other than a write-report filtered while
\* active changes them, and a filtered write-report is computed from the
\* values it finds.
C18_HistorySurvivesDisable ==
    [][\A d \in Devices :
           /\ (/\ last'.callback \in Handlers
               /\ last'.dev = d
               /\ ~FilterStep(d))
                  => FilterState(ext'[d]) = FilterState(ext[d])
           /\ FilterStep(d)
                  => ext'[d] = ProcessMouseInput(ext[d], RawX, RawY).fe]_vars

\* The filter switched on again over a history that holds one sample and
\* a last output.
C18_Witness ==
    /\ last.callback = "HidFilterDriverIoDeviceControl"
    /\ last.code = "IOCTL_HIDFILTER_SET_ACTIVE"
    /\ last.input = <<1>>
    /\ CompletedWith(last, "STATUS_SUCCESS")
    /\ filtered[last.dev] = 1
    /\ ext[last.dev].FilterActive = 1
    /\ ext[last.dev].HistoryInitialized
    /\ ext[last.dev].HistoryIndex = 1
    /\ ext[last.dev].XHistory[0] = -100
    /\ ext[last.dev].LastXOutput # 0

\* What requests write into the context: the filter state, the tunables
\* and the active flag.
Written(fe) ==
    <<FilterState(fe), fe.SmoothingFactor, fe.ResponseSpeed,
      fe.FilteringStrength, fe.FilterActive>>

\* C19: a stop releases the handle of the lower device and tears the
\* context down, so a device that is started again starts with no history
\* sample, last output, tunable or active flag written before the stop.
C19_TornDownAtStop ==
    [][\A d \in Devices :
           /\ (/\ last'.callback = "HidFilterDriverReleaseHardware"
               /\ last'.dev = d)
                  => ext'[d].Target = "NULL"
           /\ (/\ last'.callback = "HidFilterDriverPrepareHardware"
               /\ last'.dev = d
               /\ pnp[d] = "stopped"
               /\ pnp'[d] = "started")
                  => Written(ext'[d]) = Written(DefaultContext)]_vars

\* A device started again with the active flag, the smoothing factor and a
\* history sample written before the stop.
C19_SurvivesRestart ==
    /\ last.callback = "HidFilterDriverPrepareHardware"
    /\ pnp[last.dev] = "started"
    /\ ext[last.dev].Target = "open"
    /\ ext[last.dev].FilterActive = 1
    /\ ext[last.dev].SmoothingFactor = 10
    /\ ext[last.dev].HistoryInitialized
    /\ ext[last.dev].XHistory[0] = -100
    /\ ext[last.dev].LastXOutput # 0

\* The step is callback `callback` on device d.
PnpStep(d, callback) ==
    /\ last'.callback = callback
    /\ last'.dev = d

\* C20: when the creation of the default queue or of the pending queue
\* fails, the attach returns the failure and leaves no device and no
\* context; when the lower device cannot be opened, the start returns that
\* status and leaves the handle unset; the start is not tried again on a
\* device that failed, and only a started device handles a request.
C20_FailedAttachIsFatal ==
    [][\A d \in Devices :
           /\ (/\ PnpStep(d, "HidFilterDriverDeviceAdd")
               /\ last'.failedAt \in {"DefaultQueue", "PendingQueue"})
                  => /\ ~NT_SUCCESS(last'.status)
                     /\ pnp'[d] = "absent"
                     /\ ext'[d] = ZeroContext
           /\ (/\ PnpStep(d, "HidFilterDriverPrepareHardware")
               /\ ~NT_SUCCESS(last'.status))
                  => /\ pnp'[d] = "failed"
                     /\ ext'[d].Target = "NULL"
                     /\ Written(ext'[d]) = Written(ext[d])
           /\ pnp[d] = "failed"
                  => /\ pnp'[d] \in {"failed", "dead"}
                     /\ ext'[d].Target = "NULL"
           /\ pnp[d] = "dead"
                  => pnp'[d] \in {"dead", "absent"}
           /\ (last'.callback \in Handlers /\ last'.dev = d)
                  => pnp[d] = "started" /\ ext[d].Target = "open"]_vars

\* A start that failed on the open of the lower device.
C20_Witness ==
    /\ last.callback = "HidFilterDriverPrepareHardware"
    /\ last.status = "STATUS_NO_SUCH_DEVICE"
    /\ pnp[last.dev] = "failed"
    /\ ext[last.dev].Target = "NULL"
    /\ ext[last.dev].PendingQueue = <<>>

\* The handle is set exactly from a successful start to the stop.
C21_OpenWhileStarted ==
    \A d \in Devices : ext[d].Target = "open" <=> pnp[d] = "started"

\* What the default case of the control handler sends for a new request
\* when the context holds the handle `target`.
C21_SentThrough(d, target) ==
    ForwardUnknown([ext[d] EXCEPT !.Target = target], [id |-> FreshRequest(ext[d].PendingQueue), buffer |-> <<>>], "STATUS_SUCCESS", "STATUS_SUCCESS", "STATUS_SUCCESS").sent

C23_Outstanding(d) ==
    /\ last.callback \in Handlers
    /\ last.dev = d
    /\ Len(last.sent) = 1
    /\ NT_SUCCESS(last.sent[1].status)
    /\ last.completed = <<>>

\* A Get-Parameters handled and completed on d.
C23_ControlCompleted(d) ==
    /\ HidFilterDriverIoDeviceControl(d, "IOCTL_HIDFILTER_GET_PARAMETERS", <<>>, SizeofParameters, "STATUS_SUCCESS", "STATUS_SUCCESS", "STATUS_SUCCESS")
    /\ CompletedWith(last', "STATUS_SUCCESS")

\* A read-report handled and forwarded on d.
C23_ReportForwarded(d) ==
    /\ HidFilterDriverIoInternalDeviceControl(d, "IOCTL_HID_READ_REPORT", <<1, 100, 236, 255>>, "STATUS_SUCCESS", "STATUS_SUCCESS")
    /\ Len(last'.sent) = 1

\* A request of another kind handled and forwarded on d.
C23_DefaultForwarded(d) ==
    /\ HidFilterQueueDefault(d, "STATUS_SUCCESS")
    /\ Len(last'.sent) = 1

C25_TunablesInRange ==
    \A d \in Devices :
        /\ ext[d].SmoothingFactor \in 0 .. 100
        /\ ext[d].ResponseSpeed \in 0 .. 100
        /\ ext[d].FilteringStrength \in 0 .. 100

\* A Set-Response of -1 refused on a device whose smoothing factor was
\* written before: the response speed is still the default.
C25_Witness ==
    /\ last.callback = "HidFilterDriverIoDeviceControl"
    /\ last.code = "IOCTL_HIDFILTER_SET_RESPONSE"
    /\ last.input = <<255, 255, 255, 255>>
    /\ CompletedWith(last, "STATUS_INVALID_PARAMETER")
    /\ ext[last.dev].SmoothingFactor = 90
    /\ ext[last.dev].ResponseSpeed = DefaultTunable
    /\ filtered[last.dev] > 0

\* What the filter engine keeps: the filter state and the last positions.
EngineState(fe) == <<FilterState(fe), fe.LastXPosition, fe.LastYPosition>>

\* C26: a successful Set-Active changes the active flag and nothing else
\* in the context, a successful tunable Set- changes its own field and
\* nothing else, and no control request changes the history, the history
\* index, the initialized flag, the last positions or the last outputs.
C26_SetChangesOwnField ==
    [][\A d \in Devices :
           /\ (/\ ControlStep(d, "IOCTL_HIDFILTER_SET_ACTIVE")
               /\ CompletedWith(last', "STATUS_SUCCESS"))
                  => ext'[d] = [ext[d] EXCEPT !.FilterActive = last'.input[1]]
           /\ \A code \in TunableCodes :
                  (/\ ControlStep(d, code)
                   /\ CompletedWith(last', "STATUS_SUCCESS"))
                      => ext'[d] = [ext[d] EXCEPT ![TunableField(code)] = WrittenValue(last'.input)]
           /\ (last'.callback = "HidFilterDriverIoDeviceControl" /\ last'.dev = d)
                  => EngineState(ext'[d]) = EngineState(ext[d])]_vars

\* A Set-Response of 10 accepted on an active device with a smoothing
\* factor of 90 and a filtered report behind it.
C26_Witness ==
    /\ last.callback = "HidFilterDriverIoDeviceControl"
    /\ last.code = "IOCTL_HIDFILTER_SET_RESPONSE"
    /\ CompletedWith(last, "STATUS_SUCCESS")
    /\ ext[last.dev].ResponseSpeed = 10
    /\ ext[last.dev].SmoothingFactor = 90
    /\ ext[last.dev].FilteringStrength = DefaultTunable
    /\ ext[last.dev].FilterActive = 1
    /\ ext[last.dev].HistoryInitialized
    /\ ext[last.dev].LastXOutput # 0
    /\ ext[last.dev].LastXPosition # 0

\* C31: a filtered write-report is sent on with the length it came with,
\* its button byte, its wheel byte and every byte after the fourth as they
\* came; only the X and Y bytes may differ, whichever algorithm ran.
C31_OnlyXYRewritten ==
    [][\A d \in Devices :
           FilterStep(d)
               => /\ Len(last'.sent) = 1
                  /\ DOMAIN last'.sent[1].buffer = DOMAIN last'.input
                  /\ \A i \in DOMAIN last'.input \ {2, 3} :
                         last'.sent[1].buffer[i] = last'.input[i]]_vars

\* A five-byte report through the adaptive filter: X and Y rewritten,
\* buttons 5, wheel 1 and the fifth byte 7 as they came.
C31_Witness ==
    /\ last.callback = "HidFilterDriverIoInternalDeviceControl"
    /\ last.code = "IOCTL_HID_WRITE_REPORT"
    /\ last.input = <<5, 156, 20, 1, 7>>
    /\ filtered[last.dev] = 1
    /\ ext[last.dev].SmoothingFactor = 10
    /\ ext[last.dev].FilterActive # 0
    /\ Len(last.sent) = 1
    /\ last.sent[1].buffer[2] # 156
    /\ last.sent[1].buffer[1] = 5
    /\ last.sent[1].buffer[4] = 1
    /\ last.sent[1].buffer[5] = 7

\* C32: between handlers the pending queue of every device is empty, and
\* the request a control handler takes out of it and sends on is the request
\* the handler was called with.
C32_PendingQueueEmpty ==
    /\ \A d \in Devices : ext[d].PendingQueue = <<>>
    /\ (last.callback = "HidFilterDriverIoDeviceControl" /\ last.sent # <<>>)
           => last.sent[1].request = last.request

\* A read-report request handled from start to return while a request with
\* an unknown control code sits in the pending queue.
C32_StrandedAcrossHandlers ==
    /\ last.callback = "HidFilterDriverIoInternalDeviceControl"
    /\ last.code = "IOCTL_HID_READ_REPORT"
    /\ Len(last.sent) = 1
    /\ ext[last.dev].PendingQueue # <<>>
    /\ ~Pending(ext[last.dev], last.request)

\* C33: while the filter is off, a read-report, a write-report or any other
\* in-band request leaves every field of the device's context as it was
\* and counts as no filtered report; ProcessMouseInput itself, given the
\* context of a filter that is off, returns it untouched with the report as
\* it came.
C33_InactiveLeavesState ==
    [][\A d \in Devices :
           (InternalStep(d) /\ ext[d].FilterActive = 0)
               => /\ ext'[d] = ext[d]
                  /\ filtered'[d] = filtered[d]
                  /\ \A X \in {-100, 0, 20} :
                         ProcessMouseInput(ext[d], X, 0 - X)
                             = [fe |-> ext[d], X |-> X, Y |-> 0 - X]]_vars

\* A four-byte write-report received by a filter that is off and has
\* filtered nothing: no sample stored, the index 0 and the flag FALSE.
C33_Witness ==
    /\ last.callback = "HidFilterDriverIoInternalDeviceControl"
    /\ last.code = "IOCTL_HID_WRITE_REPORT"
    /\ last.input = <<5, 156, 20, 1>>
    /\ ext[last.dev].FilterActive = 0
    /\ filtered[last.dev] = 0
    /\ ext[last.dev].HistoryInitialized = FALSE
    /\ ext[last.dev].HistoryIndex = 0
    /\ ext[last.dev].LastXPosition = 0
    /\ Len(last.sent) = 1

C34_Parameters(fe) ==
    <<fe.FilterActive, fe.SmoothingFactor, fe.ResponseSpeed,
      fe.FilteringStrength>>

\* The successful Set- request that may write field i of the parameters.
C34_SetOf(d, i) ==
    /\ CompletedWith(last', "STATUS_SUCCESS")
    /\ CASE i = 1 -> /\ ControlStep(d, "IOCTL_HIDFILTER_SET_ACTIVE")
                     /\ ext'[d].FilterActive = ReadBoolean(last'.input)
         [] i = 2 -> /\ ControlStep(d, "IOCTL_HIDFILTER_SET_SMOOTHING")
                     /\ ext'[d].SmoothingFactor = WrittenValue(last'.input)
         [] i = 3 -> /\ ControlStep(d, "IOCTL_HIDFILTER_SET_RESPONSE")
                     /\ ext'[d].ResponseSpeed = WrittenValue(last'.input)
         [] OTHER -> /\ ControlStep(d, "IOCTL_HIDFILTER_SET_FILTERING")
                     /\ ext'[d].FilteringStrength = WrittenValue(last'.input)

\* C34: a Get-Parameters request leaves the whole context as it was and,
\* when it succeeds, returns the active flag and the three tunables the
\* context holds; between attach and removal each of the four changes only
\* in a successful Set- request for it, to the value that request wrote, so
\* the values returned are those of the last successful Set- requests or
\* the defaults; a filtered report changes none of the four.
C34_GetParametersCurrent ==
    [][\A d \in Devices :
           /\ ControlStep(d, "IOCTL_HIDFILTER_GET_PARAMETERS")
                  => /\ ext'[d] = ext[d]
                     /\ filtered'[d] = filtered[d]
                     /\ CompletedWith(last', "STATUS_SUCCESS")
                            => last'.output = C34_Parameters(ext[d])
                     /\ ~CompletedWith(last', "STATUS_SUCCESS")
                            => last'.output = <<>>
           /\ (/\ last'.dev = d
               /\ last'.callback \in Handlers
                                      \cup {"HidFilterDriverPrepareHardware",
                                            "HidFilterDriverReleaseHardware"})
                  => \A i \in 1 .. 4 :
                         C34_Parameters(ext'[d])[i] # C34_Parameters(ext[d])[i]
                             => C34_SetOf(d, i)
           /\ FilterStep(d)
                  => C34_Parameters(ext'[d]) = C34_Parameters(ext[d])]_vars

\* Get-Parameters after two filtered reports: it returns the active flag
\* and the smoothing factor set before them and the two defaults.
C34_Witness ==
    /\ last.callback = "HidFilterDriverIoDeviceControl"
    /\ last.code = "IOCTL_HIDFILTER_GET_PARAMETERS"
    /\ CompletedWith(last, "STATUS_SUCCESS")
    /\ filtered[last.dev] = 2
    /\ ext[last.dev].LastXOutput # 0
    /\ last.output = <<1, 90, DefaultTunable, DefaultTunable>>

-----------------------------------------------------------------------------
\* Two attached devices, each with its own context and its own sequential
\* queue: the framework calls one handler at a time per device, and the
\* contexts being separate the calls on the two devices are taken one after
\* the other.

MaxPairReports == 1

PairDevices == {"mouse", "tablet"}

PairRequests ==
    {<<"IOCTL_HIDFILTER_SET_ACTIVE", <<0>>, 0>>,
     <<"IOCTL_HIDFILTER_SET_ACTIVE", <<1>>, 0>>,
     <<"IOCTL_HIDFILTER_SET_SMOOTHING", <<10, 0, 0, 0>>, 0>>,
     <<"IOCTL_HIDFILTER_SET_SMOOTHING", <<90, 0, 0, 0>>, 0>>,
     <<"IOCTL_HIDFILTER_GET_PARAMETERS", <<>>, 16>>,
     <<"IOCTL_HID_GET_FEATURE", <<>>, 0>>}

PairPayload == <<1, 100, 20, 0>>

InitPair ==
    /\ pnp = [d \in PairDevices |-> "started"]
    /\ ext = [d \in PairDevices |-> [DefaultContext EXCEPT !.Target = "open"]]
    /\ filtered = [d \in PairDevices |-> 0]
    /\ setSeen = [d \in PairDevices |-> FALSE]
    /\ last = [Call("HidFilterDriverPrepareHardware", CHOOSE d \in PairDevices : TRUE, 0, "", <<>>, 0) EXCEPT !.status = "STATUS_SUCCESS"]

PairControl ==
    \E d \in PairDevices, r \in PairRequests :
        /\ pnp[d] = "started"
        /\ HidFilterDriverIoDeviceControl(d, r[1], r[2], r[3], "STATUS_SUCCESS", "STATUS_SUCCESS", "STATUS_SUCCESS")

PairWrite ==
    \E d \in PairDevices :
        /\ filtered[d] < MaxPairReports
        /\ HidFilterDriverIoInternalDeviceControl(d, "IOCTL_HID_WRITE_REPORT", PairPayload, "STATUS_SUCCESS", "STATUS_SUCCESS")

PairDefault ==
    \E d \in PairDevices :
        /\ pnp[d] = "started"
        /\ HidFilterQueueDefault(d, "STATUS_SUCCESS")

NextPair ==
    \/ PairControl
    \/ PairWrite
    \/ PairDefault

SpecPair == InitPair /\ [][NextPair]_vars

-----------------------------------------------------------------------------
\* The filter engine on mixed input: a started, active device with any of
\* a range of tunables receives write-reports with large and small, positive
\* and negative movements.

MaxEngineReports == 3

EngineSmoothing == {10, 50, 90}

EngineResponse == {0, 50, 100}

EngineFiltering == {0, 50, 100}

\* (X, Y): the extremes, a slow movement, no movement, and (-20, -8).
EnginePayloads ==
    {<<0, 128, 127, 0>>, <<0, 127, 128, 0>>, <<0, 3, 252, 0>>,
     <<0, 0, 0, 0>>, <<0, 236, 248, 0>>}

InitEngine ==
    /\ pnp = [d \in Devices |-> "started"]
    /\ \E sf \in EngineSmoothing, rs \in EngineResponse,
          fs \in EngineFiltering :
           ext = [d \in Devices |-> Configured(sf, rs, fs)]
    /\ filtered = [d \in Devices |-> 0]
    /\ setSeen = [d \in Devices |-> TRUE]
    /\ last = SwitchedOn(CHOOSE d \in Devices : TRUE)

EngineWrite ==
    \E d \in Devices, payload \in EnginePayloads :
        /\ filtered[d] < MaxEngineReports
        /\ HidFilterDriverIoInternalDeviceControl(d, "IOCTL_HID_WRITE_REPORT", payload, "STATUS_SUCCESS", "STATUS_SUCCESS")

NextEngine == EngineWrite

SpecEngine == InitEngine /\ [][NextEngine]_vars

\* The last step filtered a write-report of device d (in SpecEngine the
\* device is always active).
EngineFiltered(d) ==
    /\ last.callback = "HidFilterDriverIoInternalDeviceControl"
    /\ last.dev = d
    /\ filtered[d] > 0
    /\ Len(last.sent) = 1

\* C24: the last outputs are in -128 .. 127 in every state, and the X and Y
\* bytes of a filtered report are the signed bytes of exactly those values.
C24_OutputsInCharRange ==
    \A d \in Devices :
        /\ ext[d].LastXOutput \in -128 .. 127
        /\ ext[d].LastYOutput \in -128 .. 127
        /\ EngineFiltered(d)
               => /\ last.sent[1].buffer[2] \in 0 .. 255
                  /\ last.sent[1].buffer[3] \in 0 .. 255
                  /\ SignedByte(last.sent[1].buffer[2]) = ext[d].LastXOutput
                  /\ SignedByte(last.sent[1].buffer[3]) = ext[d].LastYOutput

\* The moving average over three samples of X = -128: the unsigned
\* quotient is far above the range and is stored and sent as 127.
C24_Witness ==
    /\ EngineFiltered(last.dev)
    /\ filtered[last.dev] = 3
    /\ ext[last.dev].SmoothingFactor = 50
    /\ ext[last.dev].FilteringStrength = 0
    /\ \A i \in 0 .. 2 : ext[last.dev].XHistory[i] = -128
    /\ ext[last.dev].LastXOutput = 127
    /\ last.sent[1].buffer[2] = 127

\* The sum of the samples of hist in the slots S.
RECURSIVE C27_Sum(_, _)
C27_Sum(hist, S) ==
    IF S = {} THEN 0
    ELSE LET i == CHOOSE j \in S : TRUE
         IN  hist[i] + C27_Sum(hist, S \ {i})

\* The mean of the `window` most recent samples of hist, the quotient
\* rounded toward zero, clamped to -128 .. 127.
C27_Mean(fe, hist, window) ==
    Clamp(TruncDiv(C27_Sum(hist, RecentSlots(fe, window)), window), -128, 127)

\* The window of the claim for a filtering strength.
C27_Window(fs) == Clamp(3 + (fs * 7) \div 100, 1, 10)

\* C27: a report filtered with a smoothing factor in 26 .. 75 leaves, on
\* each axis, with the mean of the `window` most recent raw samples of the
\* history, the sample of the report included and the slots never written
\* counting 0, by integer division rounding toward zero, clamped to -128 ..
\* 127 and stored as the last output, whatever the signs of the samples.
C27_WindowedAverage ==
    \A d \in Devices :
        (EngineFiltered(d) /\ ext[d].SmoothingFactor \in 26 .. 75)
            => /\ ext[d].LastXOutput = C27_Mean(ext[d], ext[d].XHistory, C27_Window(ext[d].FilteringStrength))
               /\ ext[d].LastYOutput = C27_Mean(ext[d], ext[d].YHistory, C27_Window(ext[d].FilteringStrength))
               /\ SignedByte(last.sent[1].buffer[2]) = ext[d].LastXOutput
               /\ SignedByte(last.sent[1].buffer[3]) = ext[d].LastYOutput

\* One report (-20, -8) through a window of 3: both axes leave as 127,
\* where the means of (-20, 0, 0) and (-8, 0, 0) are -6 and -2.
C27_NegativeSum ==
    /\ EngineFiltered(last.dev)
    /\ filtered[last.dev] = 1
    /\ last.input = <<0, 236, 248, 0>>
    /\ ext[last.dev].SmoothingFactor = 50
    /\ ext[last.dev].FilteringStrength = 0
    /\ ext[last.dev].LastXOutput = 127
    /\ ext[last.dev].LastYOutput = 127

\* The means of non-negative sums are as claimed: (127, -128), (3, -4) and
\* (127, -128) through a window of 6 give X = 257 / 6 = 42.
C27_PositiveSum ==
    /\ EngineFiltered(last.dev)
    /\ filtered[last.dev] = 3
    /\ ext[last.dev].SmoothingFactor = 50
    /\ ext[last.dev].FilteringStrength = 50
    /\ ext[last.dev].XHistory[0] = 127
    /\ ext[last.dev].XHistory[1] = 3
    /\ ext[last.dev].XHistory[2] = 127
    /\ ext[last.dev].LastXOutput = 42

\* alpha of the adaptive filter in 2000ths: responseSpeed / 100 + (1 -
\* responseSpeed / 100) * min(velocity, 20) / 20, limited to 0.1 .. 0.9.
C29_Alpha(rs, velocity) ==
    Clamp(20 * rs + (100 - rs) * MinLong(velocity, 20), 200, 1800)

\* alpha * x + (1 - alpha) * lastOutput for alpha = a / 2000, rounded toward
\* zero and clamped to -128 .. 127.
C29_Blend(a, x, lastOutput) ==
    Clamp(TruncDiv(a * x + (2000 - a) * lastOutput, 2000), -128, 127)

C29_Velocity == Abs(RawX) + Abs(RawY)

\* C29: a report filtered with a smoothing factor of at most 25 leaves, on
\* each axis, with alpha * input + (1 - alpha) * lastOutput rounded toward
\* zero and clamped to -128 .. 127, for alpha = clamp(baseAlpha + (1 -
\* baseAlpha) * velocityFactor, 0.1, 0.9), baseAlpha = responseSpeed / 100,
\* velocityFactor = clamp((|rawX| + |rawY|) / 20, 0, 1); the output becomes
\* the last output of the axis.
C29_AdaptiveOutput ==
    [][\A d \in Devices :
           (FilterStep(d) /\ ext[d].SmoothingFactor <= 25)
               => /\ ext'[d].LastXOutput = C29_Blend(C29_Alpha(ext[d].ResponseSpeed, C29_Velocity), RawX, ext[d].LastXOutput)
                  /\ ext'[d].LastYOutput = C29_Blend(C29_Alpha(ext[d].ResponseSpeed, C29_Velocity), RawY, ext[d].LastYOutput)
                  /\ SignedByte(last'.sent[1].buffer[2]) = ext'[d].LastXOutput
                  /\ SignedByte(last'.sent[1].buffer[3]) = ext'[d].LastYOutput]_vars

\* Response speed 100, the report (3, -4) and then (-128, 127): Y leaves as
\* 113, where 0.9 * 127 + 0.1 * -3 is 114.
C29_Deviation ==
    /\ EngineFiltered(last.dev)
    /\ filtered[last.dev] = 2
    /\ last.input = <<0, 128, 127, 0>>
    /\ ext[last.dev].SmoothingFactor = 10
    /\ ext[last.dev].ResponseSpeed = 100
    /\ ext[last.dev].YHistory[0] = -4
    /\ ext[last.dev].LastXOutput = -115
    /\ ext[last.dev].LastYOutput = 113

\* The context with other last positions.
C30_Moved(fe) ==
    [fe EXCEPT !.LastXPosition = 77 - @, !.LastYPosition = @ - 77]

\* Two results of the filter that agree in the report and in the context.
C30_Same(r1, r2) == r1.X = r2.X /\ r1.Y = r2.Y /\ r1.fe = r2.fe

\* The report (x, y) filtered from fe and from fe with other last positions
\* comes out the same and leaves the same context.
C30_PositionsUnread(fe, x, y) ==
    C30_Same(ProcessMouseInput(fe, x, y), ProcessMouseInput(C30_Moved(fe), x, y))

\* C30: in every state the last positions are the last outputs, which
\* after a filtered report are the X and Y the report left with, and the
\* filtering of the next report does not depend on the last positions.
C30_PositionsAreOutputs ==
    \A d \in Devices :
        /\ ext[d].LastXPosition = ext[d].LastXOutput
        /\ ext[d].LastYPosition = ext[d].LastYOutput
        /\ EngineFiltered(d)
               => /\ SignedByte(last.sent[1].buffer[2]) = ext[d].LastXPosition
                  /\ SignedByte(last.sent[1].buffer[3]) = ext[d].LastYPosition
        /\ C30_PositionsUnread(ext[d], 3, -4)
        /\ C30_PositionsUnread(ext[d], -128, 127)

\* After (3, -4) and (-128, 127) through the adaptive filter the last
\* positions are the outputs -115 and 113, not the raw -128 and 127.
C30_Witness ==
    /\ EngineFiltered(last.dev)
    /\ filtered[last.dev] = 2
    /\ last.input = <<0, 128, 127, 0>>
    /\ ext[last.dev].XHistory[1] = -128
    /\ ext[last.dev].LastXPosition = -115
    /\ ext[last.dev].LastYPosition = 113
    /\ ext[last.dev].LastXOutput = -115

-----------------------------------------------------------------------------
\* The window of the moving average for every filtering strength: a
\* started, active device with the smoothing factor at 50 takes Set-Filtering
\* requests with every value of 0 .. 100 and write-reports with X = 120.

MaxWindowReports == 1

WindowStrengths == 0 .. 100

WindowX == 120

InitWindow ==
    /\ pnp = [d \in Devices |-> "started"]
    /\ ext = [d \in Devices |->
                  Configured(DefaultTunable, DefaultTunable, DefaultTunable)]
    /\ filtered = [d \in Devices |-> 0]
    /\ setSeen = [d \in Devices |-> FALSE]
    /\ last = SwitchedOn(CHOOSE d \in Devices : TRUE)

WindowSetFiltering ==
    \E d \in Devices, fs \in WindowStrengths :
        /\ pnp[d] = "started"
        /\ HidFilterDriverIoDeviceControl(d, "IOCTL_HIDFILTER_SET_FILTERING", <<fs, 0, 0, 0>>, 0, "STATUS_SUCCESS", "STATUS_SUCCESS", "STATUS_SUCCESS")

WindowWrite ==
    \E d \in Devices :
        /\ filtered[d] < MaxWindowReports
        /\ HidFilterDriverIoInternalDeviceControl(d, "IOCTL_HID_WRITE_REPORT", <<0, WindowX, 0, 0>>, "STATUS_SUCCESS", "STATUS_SUCCESS")

NextWindow ==
    \/ WindowSetFiltering
    \/ WindowWrite

SpecWindow == InitWindow /\ [][NextWindow]_vars

\* The window of the claim.
C28_Window(fs) == 3 + (fs * 7) \div 100

\* C28: for every filtering strength in 0 .. 100 the window of the moving
\* average is 3 + floor(filteringStrength * 7 / 100), which lies in 3 ..
\* 10: report k of a stream of X = 120 leaves with 120 times the smaller of
\* k and the window, divided by the window.
C28_WindowInRange ==
    [][\A d \in Devices :
           FilterStep(d)
               => /\ ext[d].FilteringStrength \in 0 .. 100
                  /\ C28_Window(ext[d].FilteringStrength) \in 3 .. HISTORY_SIZE
                  /\ WindowSize(ext[d].FilteringStrength) = C28_Window(ext[d].FilteringStrength)
                  /\ ext'[d].LastXOutput = Clamp((WindowX * MinLong(filtered'[d], C28_Window(ext[d].FilteringStrength))) \div C28_Window(ext[d].FilteringStrength), -128, 127)]_vars

\* The report filtered with a filtering strength of 100: the window is 10
\* and 120 leaves as 12.
C28_Witness ==
    /\ last.callback = "HidFilterDriverIoInternalDeviceControl"
    /\ filtered[last.dev] = 1
    /\ ext[last.dev].FilteringStrength = 100
    /\ ext[last.dev].XHistory[0] = WindowX
    /\ ext[last.dev].LastXOutput = 12

-----------------------------------------------------------------------------
\* A pointer that moves and then stops: an active, started device with
\* fixed tunables is sent MaxSettleMoves write-reports of a movement and
\* then write-reports with X = 0 and Y = 0, one after the other as the
\* sequential queue presents them.

\* Reports of the movement.
MaxSettleMoves == 2

\* Reports with X = 0 and Y = 0 that follow the movement.
MaxSettleRests == 20

SettleSmoothing == {10, 50, 90, 100}

SettleResponse == {50, 100}

SettleFiltering == {0, 100}

\* (X, Y): the extremes, (12, -12) and a slow movement.
SettlePayloads ==
    {<<0, 127, 128, 0>>, <<0, 128, 127, 0>>, <<0, 12, 244, 0>>,
     <<0, 3, 252, 0>>}

InitSettle ==
    /\ pnp = [d \in Devices |-> "started"]
    /\ \E sf \in SettleSmoothing, rs \in SettleResponse,
          fs \in SettleFiltering :
           ext = [d \in Devices |-> Configured(sf, rs, fs)]
    /\ filtered = [d \in Devices |-> 0]
    /\ setSeen = [d \in Devices |-> TRUE]
    /\ last = SwitchedOn(CHOOSE d \in Devices : TRUE)

SettleMove ==
    \E d \in Devices, payload \in SettlePayloads :
        /\ filtered[d] < MaxSettleMoves
        /\ HidFilterDriverIoInternalDeviceControl(d, "IOCTL_HID_WRITE_REPORT", payload, "STATUS_SUCCESS", "STATUS_SUCCESS")

SettleRest ==
    \E d \in Devices :
        /\ filtered[d] >= MaxSettleMoves
        /\ filtered[d] < MaxSettleMoves + MaxSettleRests
        /\ HidFilterDriverIoInternalDeviceControl(d, "IOCTL_HID_WRITE_REPORT", <<0, 0, 0, 0>>, "STATUS_SUCCESS", "STATUS_SUCCESS")

NextSettle ==
    \/ SettleMove
    \/ SettleRest

\* A report that is due is presented to the handler and handled: the count
\* of reports handled advances.  In a behaviour of NextSettle the steps
\* that advance the count are the steps of NextSettle, and one is enabled
\* exactly while a report is due.
SettleHandled ==
    \E d \in Devices :
        /\ filtered[d] < MaxSettleMoves + MaxSettleRests
        /\ filtered' = [filtered EXCEPT ![d] = @ + 1]

\* The sequential queue presents every request it holds: the reports of
\* the movement and of the stopped pointer keep arriving and each is
\* handled.
SpecSettle ==
    InitSettle /\ [][NextSettle]_vars /\ WF_filtered(SettleHandled)

C35_Between(output, input, lastOutput) ==
    /\ MinLong(input, lastOutput) <= output
    /\ output <= MaxLong(input, lastOutput)

\* C35: a report filtered by the exponential or the adaptive filter leaves
\* with X between the raw X and the last X output and with Y between the
\* raw Y and the last Y output, both ends included.
C35_NoOvershoot ==
    [][\A d \in Devices :
           (FilterStep(d) /\ ext[d].SmoothingFactor \notin 26 .. 75)
               => /\ C35_Between(ext'[d].LastXOutput, RawX, ext[d].LastXOutput)
                  /\ C35_Between(ext'[d].LastYOutput, RawY, ext[d].LastYOutput)]_vars

\* The exponential filter with a smoothing factor of 90: the report
\* (127, -128) left as (12, -12), and the report (12, -12) that followed
\* left as (11, -11), further from the input than the last output was.
C35_MovedAway ==
    /\ last.callback = "HidFilterDriverIoInternalDeviceControl"
    /\ ext[last.dev].SmoothingFactor = 90
    /\ filtered[last.dev] = 2
    /\ ext[last.dev].XHistory[0] = 127
    /\ ext[last.dev].YHistory[0] = -128
    /\ last.input = <<0, 12, 244, 0>>
    /\ ext[last.dev].LastXOutput = 11
    /\ ext[last.dev].LastYOutput = -11
    /\ last.sent[1].buffer = <<0, 11, 245, 0>>

\* The reports of the stopped pointer handled so far.
C36_Rests(d) == filtered[d] - MaxSettleMoves

\* The last report left with X = 0 and Y = 0.
C36_Still(d) ==
    /\ ext[d].LastXOutput = 0
    /\ ext[d].LastYOutput = 0
    /\ Len(last.sent) = 1
    /\ last.sent[1].buffer[2] = 0
    /\ last.sent[1].buffer[3] = 0

C36_Smaller(after, before) ==
    IF before = 0 THEN after = 0 ELSE Abs(after) < Abs(before)

\* C36: once the pointer has stopped, the filtered X and Y become 0 and
\* stay 0 from some report on; with the moving average they are 0 from the
\* tenth report of the stopped pointer on; with the exponential and the
\* adaptive filter each report of the stopped pointer leaves with an X and
\* a Y of smaller magnitude than the one before, or with 0 after 0.
C36_Settles ==
    /\ <>[](\A d \in Devices : C36_Still(d))
    /\ [](\A d \in Devices :
              (/\ ext[d].SmoothingFactor \in 26 .. 75
               /\ C36_Rests(d) >= HISTORY_SIZE)
                  => C36_Still(d))
    /\ [][\A d \in Devices :
              (/\ FilterStep(d)
               /\ C36_Rests(d) >= 0
               /\ ext[d].SmoothingFactor \notin 26 .. 75)
                  => /\ C36_Smaller(ext'[d].LastXOutput, ext[d].LastXOutput)
                     /\ C36_Smaller(ext'[d].LastYOutput, ext[d].LastYOutput)]_vars

\* The exponential filter with a smoothing factor of 90, sixteen reports
\* after the pointer stopped at the outputs (23, -23): the output has
\* reached 0 from 1.
C36_Witness ==
    /\ last.callback = "HidFilterDriverIoInternalDeviceControl"
    /\ ext[last.dev].SmoothingFactor = 90
    /\ C36_Rests(last.dev) = 16
    /\ last.input = <<0, 0, 0, 0>>
    /\ C36_Still(last.dev)
    /\ ext[last.dev].LastXPosition = 0

=============================================================================
